---- MODULE Spec2Model ----
(***************************************************************************)
(* The fiber update queue (ReactFiberUpdateQueue, src/unnamed/part_005):   *)
(* a pair of fibers (current / work-in-progress), their update queues, and *)
(* the persistent list of updates the two queues share.                    *)
(*                                                                         *)
(* Objects live in arenas and are addressed by index, 0 being null:        *)
(*   updates[u]  an Update      (expirationTime, process, commit, next,    *)
(*                               nextEffect)                               *)
(*   queues[q]   an UpdateQueue (the ten fields of the source type)        *)
(*   fibers[f]   a Fiber        (alternate, updateQueue, memoizedState,    *)
(*                               effectTag)                                *)
(* Addresses are immaterial, so the heap is kept up to renaming: fiber 1   *)
(* is the committed fiber (root.current) and fiber 2 its alternate, queue  *)
(* 1 is the first queue the fibers reference, and an object that nothing   *)
(* references any more is reclaimed.                                       *)
(* A component state is the sequence of the ids of the updates whose       *)
(* process function produced it: process appends the update's own id, as   *)
(* in the header comment's example, where each update appends a letter.    *)
(***************************************************************************)
EXTENDS Integers, Sequences, FiniteSets, TLC

\* ------------------------------------------------------------------ bounds
MaxUpdates == 3
MaxPriority == 2

\* ------------------------------------------------------- program constants
NoWork == 0
Null == 0
Current == 1

\* The header comment's example, A1 - B2 - C1 - D2: the priorities of its updates.
ExamplePriorities == <<1, 2, 1, 2>>

\* The arena holds the updates of the example even when MaxUpdates is smaller.
ArenaSize ==
  IF MaxUpdates > Len(ExamplePriorities) THEN MaxUpdates
  ELSE Len(ExamplePriorities)

UpdIds == 1..ArenaSize
QIds == 1..2
FiberIds == 1..2
Priorities == 1..MaxPriority
\* What the callers put into an update: a state transform (process), a
\* callback (commit), or both.
UpdateShapes == {[process |-> "append", commit |-> FALSE],
                 [process |-> "append", commit |-> TRUE],
                 [process |-> "null", commit |-> TRUE]}

VARIABLES
  updates,      \* arena of Update objects
  queues,       \* arena of UpdateQueue objects
  fibers,       \* the two fibers of the pair
  phase,        \* where the render pass stands: "idle", "render" (begun),
                \* "processed" (one pass ran), "reprocessed" (several ran)
  hung,         \* a loop of the program does not terminate
  fired,        \* the commit callbacks invoked so far, in order
  calls,        \* per update, how often its process function was invoked (capped)
  withCommit,   \* the updates that were created with a commit callback
  last,         \* the last operation and its arguments
  diagnostics   \* the build (__DEV__ or not), the tag of the pair's fibers,
                \* didWarnUpdateInsideUpdate, the warnings reported (capped)
                \* and the enqueueUpdate calls that met isProcessing (capped)

vars == <<updates, queues, fibers, phase, hung, fired, calls, withCommit, last,
          diagnostics>>

\* ------------------------------------------------------------------ objects
FreeUpdate ==
  [alloc |-> FALSE, expirationTime |-> NoWork, process |-> "null",
   commit |-> FALSE, next |-> Null, nextEffect |-> Null]

FreeQueue ==
  [alloc |-> FALSE, expirationTime |-> NoWork, baseState |-> <<>>,
   firstUpdate |-> Null, lastUpdate |-> Null,
   firstRenderPhaseUpdate |-> Null, lastRenderPhaseUpdate |-> Null,
   firstCapturedUpdate |-> Null, lastCapturedUpdate |-> Null,
   firstEffect |-> Null, lastEffect |-> Null,
   isProcessing |-> FALSE]

NoFiber ==
  [alloc |-> FALSE, alternate |-> Null, updateQueue |-> Null,
   memoizedState |-> <<>>, effectTag |-> FALSE]

createUpdateQueue(baseState) ==
  [alloc |-> TRUE, expirationTime |-> NoWork, baseState |-> baseState,
   firstUpdate |-> Null, lastUpdate |-> Null,
   firstRenderPhaseUpdate |-> Null, lastRenderPhaseUpdate |-> Null,
   firstCapturedUpdate |-> Null, lastCapturedUpdate |-> Null,
   firstEffect |-> Null, lastEffect |-> Null,
   isProcessing |-> FALSE]

\* A "clone" that is a new empty queue on the source's base state.
cloneUpdateQueue_fresh(currentQueue) == createUpdateQueue(currentQueue.baseState)


\* A clone that keeps the render phase and captured lists of its source.
cloneUpdateQueue_keepRenderPhase(currentQueue) ==
  [alloc |-> TRUE, expirationTime |-> currentQueue.expirationTime,
   baseState |-> currentQueue.baseState,
   firstUpdate |-> currentQueue.firstUpdate,
   lastUpdate |-> currentQueue.lastUpdate,
   firstRenderPhaseUpdate |-> currentQueue.firstRenderPhaseUpdate,
   lastRenderPhaseUpdate |-> currentQueue.lastRenderPhaseUpdate,
   firstCapturedUpdate |-> currentQueue.firstCapturedUpdate,
   lastCapturedUpdate |-> currentQueue.lastCapturedUpdate,
   firstEffect |-> Null, lastEffect |-> Null,
   isProcessing |-> FALSE]

cloneUpdateQueue(currentQueue) ==
  [alloc |-> TRUE, expirationTime |-> currentQueue.expirationTime,
   baseState |-> currentQueue.baseState,
   firstUpdate |-> currentQueue.firstUpdate,
   lastUpdate |-> currentQueue.lastUpdate,
   firstRenderPhaseUpdate |-> Null, lastRenderPhaseUpdate |-> Null,
   firstCapturedUpdate |-> Null, lastCapturedUpdate |-> Null,
   firstEffect |-> Null, lastEffect |-> Null,
   isProcessing |-> FALSE]

createUpdate(expirationTime) ==
  [alloc |-> TRUE, expirationTime |-> expirationTime, process |-> "null",
   commit |-> FALSE, next |-> Null, nextEffect |-> Null]

\* The heap the operations below transform: the three arenas and the two logs.
\* threw: a process function threw and the exception is propagating.
Heap == [u |-> updates, q |-> queues, f |-> fibers, fired |-> fired,
         calls |-> calls, hung |-> hung, d |-> diagnostics, threw |-> FALSE]

\* A queue object nobody references is reclaimed; the slot can be reused.
NewQueueId(H) == CHOOSE i \in QIds : \A j \in FiberIds : H.f[j].updateQueue # i

\* The updates reachable from the queues' pointers through next and nextEffect.
RECURSIVE Closure(_, _, _)
Closure(u, set, fuel) ==
  LET more == set \cup {u[x].next : x \in set} \cup {u[x].nextEffect : x \in set}
      grown == more \ {Null}
  IN IF fuel = 0 \/ grown = set THEN set ELSE Closure(u, grown, fuel - 1)

Roots(H) ==
  UNION {{H.q[i].firstUpdate, H.q[i].lastUpdate,
          H.q[i].firstRenderPhaseUpdate, H.q[i].lastRenderPhaseUpdate,
          H.q[i].firstCapturedUpdate, H.q[i].lastCapturedUpdate,
          H.q[i].firstEffect, H.q[i].lastEffect} : i \in QIds} \ {Null}

\* Garbage collection and canonical naming. A queue no fiber references and an
\* update no queue reaches can never be reached again: the first is freed, the
\* second keeps only what it was (its process function). The queue the first
\* fiber that has one references is named 1.
Collect(H) ==
  LET q1 == H.f[1].updateQueue
      q2 == H.f[2].updateQueue
      swap == q1 = 2 \/ (q1 = Null /\ q2 = 2)
      ren(i) == IF i = Null \/ ~swap THEN i ELSE 3 - i
      Hq == [H EXCEPT
              !.q = [i \in QIds |->
                       IF ren(i) \in {q1, q2} THEN H.q[ren(i)] ELSE FreeQueue],
              !.f = [j \in FiberIds |->
                       [H.f[j] EXCEPT !.updateQueue = ren(@)]]]
      live == Closure(Hq.u, Roots(Hq), ArenaSize)
  IN [Hq EXCEPT
       !.u = [x \in UpdIds |->
                IF x \in live \/ ~Hq.u[x].alloc THEN Hq.u[x]
                ELSE [FreeUpdate EXCEPT !.alloc = TRUE,
                                        !.process = Hq.u[x].process]]]

NewUpdateId(H) == CHOOSE i \in UpdIds :
  /\ ~H.u[i].alloc
  /\ \A j \in UpdIds : j < i => H.u[j].alloc

\* The process function of an update applied to a state.
ApplyProcess(kind, uid, prevState) ==
  IF kind \in {"append", "setStateOnce", "throwOnce"}
  THEN Append(prevState, uid)
  ELSE prevState

\* ------------------------------------------------------------------ enqueue
appendUpdateToQueue(H, queue, update, expirationTime) ==
  LET q0 == H.q[queue]
      H1 == IF q0.lastUpdate = Null
            THEN [H EXCEPT !.q[queue].firstUpdate = update,
                           !.q[queue].lastUpdate = update]
            ELSE [H EXCEPT !.u[q0.lastUpdate].next = update,
                           !.q[queue].lastUpdate = update]
  IN IF q0.expirationTime = NoWork \/ q0.expirationTime > expirationTime
     THEN [H1 EXCEPT !.q[queue].expirationTime = expirationTime]
     ELSE H1

\* Lines 238-271: find or create queue1 (the fiber's) and queue2 (the alternate's).
EnsureQueues(H, fiber) ==
  LET alternate == H.f[fiber].alternate
      queue1 == H.f[fiber].updateQueue
  IN IF alternate = Null
     THEN IF queue1 = Null
          THEN LET n == NewQueueId(H)
               IN [H EXCEPT !.q[n] = createUpdateQueue(H.f[fiber].memoizedState),
                            !.f[fiber].updateQueue = n]
          ELSE H
     ELSE LET queue2 == H.f[alternate].updateQueue
          IN IF queue1 = Null
             THEN IF queue2 = Null
                  THEN LET n1 == NewQueueId(H)
                           Ha == [H EXCEPT
                                   !.q[n1] = createUpdateQueue(H.f[fiber].memoizedState),
                                   !.f[fiber].updateQueue = n1]
                           n2 == NewQueueId(Ha)
                       IN [Ha EXCEPT
                            !.q[n2] = createUpdateQueue(H.f[alternate].memoizedState),
                            !.f[alternate].updateQueue = n2]
                  ELSE LET n == NewQueueId(H)
                       IN [H EXCEPT !.q[n] = cloneUpdateQueue(H.q[queue2]),
                                    !.f[fiber].updateQueue = n]
             ELSE IF queue2 = Null
                  THEN LET n == NewQueueId(H)
                       IN [H EXCEPT !.q[n] = cloneUpdateQueue(H.q[queue1]),
                                    !.f[alternate].updateQueue = n]
                  ELSE H

\* An append to two queues that leaves the second queue's lastUpdate alone when
\* both are non-empty.
appendToBothQueues_noRepoint(H, queue1, queue2, update, expirationTime) ==
  IF H.q[queue1].lastUpdate = Null \/ H.q[queue2].lastUpdate = Null
  THEN appendUpdateToQueue(
         appendUpdateToQueue(H, queue1, update, expirationTime),
         queue2, update, expirationTime)
  ELSE appendUpdateToQueue(H, queue1, update, expirationTime)

\* Lines 276-289: there are two queues.
appendToBothQueues(H, queue1, queue2, update, expirationTime) ==
  IF H.q[queue1].lastUpdate = Null \/ H.q[queue2].lastUpdate = Null
  THEN appendUpdateToQueue(
         appendUpdateToQueue(H, queue1, update, expirationTime),
         queue2, update, expirationTime)
  ELSE [appendUpdateToQueue(H, queue1, update, expirationTime)
          EXCEPT !.q[queue2].lastUpdate = update]

\* A warning that is reported every time, with no latch.
warnUpdateInsideUpdate_noLatch(H, queue1, queue2) ==
  IF /\ H.d.dev
     /\ H.q[queue1].isProcessing \/ (queue2 # Null /\ H.q[queue2].isProcessing)
  THEN [H EXCEPT
         !.d.reentered = IF @ < 2 THEN @ + 1 ELSE @,
         !.d.warnings = IF H.d.tagIsClassComponent /\ @ < 2 THEN @ + 1 ELSE @,
         !.d.didWarnUpdateInsideUpdate = @ \/ H.d.tagIsClassComponent]
  ELSE H

\* Lines 292-307: in a __DEV__ build, the warning about an update scheduled
\* from inside an update function. reentered counts the calls that found
\* isProcessing set, whether or not they warned.
warnUpdateInsideUpdate(H, queue1, queue2) ==
  IF /\ H.d.dev
     /\ H.q[queue1].isProcessing \/ (queue2 # Null /\ H.q[queue2].isProcessing)
  THEN LET H1 == [H EXCEPT !.d.reentered = IF @ < 2 THEN @ + 1 ELSE @]
       IN IF H.d.tagIsClassComponent /\ ~H.d.didWarnUpdateInsideUpdate
          THEN [H1 EXCEPT !.d.warnings = IF @ < 2 THEN @ + 1 ELSE @,
                          !.d.didWarnUpdateInsideUpdate = TRUE]
          ELSE H1
  ELSE H

\* enqueueUpdate that appends to "both" queues even when they are one object.
enqueueUpdate_ignoreSameQueue(H, fiber, update, expirationTime) ==
  LET H0 == EnsureQueues(H, fiber)
      alternate == H0.f[fiber].alternate
      queue1 == H0.f[fiber].updateQueue
      queue2 == IF alternate = Null THEN Null ELSE H0.f[alternate].updateQueue
  IN warnUpdateInsideUpdate(
       IF queue2 = Null
       THEN appendUpdateToQueue(H0, queue1, update, expirationTime)
       ELSE appendToBothQueues(H0, queue1, queue2, update, expirationTime),
       queue1, queue2)

\* enqueueUpdate that, in a __DEV__ build, refuses an update scheduled while a
\* queue of the pair is processing.
enqueueUpdate_blockWhileProcessing(H, fiber, update, expirationTime) ==
  LET H0 == EnsureQueues(H, fiber)
      alternate == H0.f[fiber].alternate
      queue1 == H0.f[fiber].updateQueue
      queue2 == IF alternate = Null THEN Null ELSE H0.f[alternate].updateQueue
      processing ==
        /\ H0.d.dev
        /\ H0.q[queue1].isProcessing
              \/ (queue2 # Null /\ H0.q[queue2].isProcessing)
  IN warnUpdateInsideUpdate(
       IF processing THEN H0
       ELSE IF queue2 = Null \/ queue1 = queue2
       THEN appendUpdateToQueue(H0, queue1, update, expirationTime)
       ELSE appendToBothQueues(H0, queue1, queue2, update, expirationTime),
       queue1, queue2)


\* Lines 272-307, once queue1 and queue2 exist.
appendToQueues(H0, fiber, update, expirationTime) ==
  LET alternate == H0.f[fiber].alternate
      queue1 == H0.f[fiber].updateQueue
      queue2 == IF alternate = Null THEN Null ELSE H0.f[alternate].updateQueue
  IN warnUpdateInsideUpdate(
       IF queue2 = Null \/ queue1 = queue2
       THEN appendUpdateToQueue(H0, queue1, update, expirationTime)
       ELSE appendToBothQueues(H0, queue1, queue2, update, expirationTime),
       queue1, queue2)

enqueueUpdate(H, fiber, update, expirationTime) ==
  appendToQueues(EnsureQueues(H, fiber), fiber, update, expirationTime)

\* A pass that works on the queue it was given, shared or not.
ensureWorkInProgressQueueIsAClone_never(H, workInProgress, queue) == H

ensureWorkInProgressQueueIsAClone(H, workInProgress, queue) ==
  LET cur == H.f[workInProgress].alternate
  IN IF cur # Null /\ queue = H.f[cur].updateQueue
     THEN LET n == NewQueueId(H)
          IN [H EXCEPT !.q[n] = cloneUpdateQueue(H.q[queue]),
                       !.f[workInProgress].updateQueue = n]
     ELSE H

\* The work-in-progress queue, created when missing but never cloned.
EnsureWorkInProgressQueue_noClone(H, workInProgress) ==
  IF H.f[workInProgress].updateQueue = Null
  THEN LET n == NewQueueId(H)
       IN [H EXCEPT !.q[n] = createUpdateQueue(H.f[workInProgress].memoizedState),
                    !.f[workInProgress].updateQueue = n]
  ELSE H


\* Lines 317-330 and 357-370: the work-in-progress queue, created or cloned.
EnsureWorkInProgressQueue(H, workInProgress) ==
  IF H.f[workInProgress].updateQueue = Null
  THEN LET n == NewQueueId(H)
       IN [H EXCEPT !.q[n] = createUpdateQueue(H.f[workInProgress].memoizedState),
                    !.f[workInProgress].updateQueue = n]
  ELSE ensureWorkInProgressQueueIsAClone(H, workInProgress,
                                         H.f[workInProgress].updateQueue)

enqueueRenderPhaseUpdate(H, workInProgress, update, renderExpirationTime) ==
  LET H0 == EnsureWorkInProgressQueue(H, workInProgress)
      wq == H0.f[workInProgress].updateQueue
      q0 == H0.q[wq]
      H1 == IF q0.lastRenderPhaseUpdate = Null
            THEN [H0 EXCEPT !.q[wq].firstRenderPhaseUpdate = update,
                            !.q[wq].lastRenderPhaseUpdate = update]
            ELSE [H0 EXCEPT !.u[q0.lastRenderPhaseUpdate].next = update,
                            !.q[wq].lastRenderPhaseUpdate = update]
  IN IF q0.expirationTime = NoWork \/ q0.expirationTime > renderExpirationTime
     THEN [H1 EXCEPT !.q[wq].expirationTime = renderExpirationTime]
     ELSE H1

enqueueCapturedUpdate(H, workInProgress, update, renderExpirationTime) ==
  LET H0 == EnsureWorkInProgressQueue(H, workInProgress)
      wq == H0.f[workInProgress].updateQueue
      q0 == H0.q[wq]
      H1 == IF q0.lastCapturedUpdate = Null
            THEN [H0 EXCEPT !.q[wq].firstCapturedUpdate = update,
                            !.q[wq].lastCapturedUpdate = update]
            ELSE [H0 EXCEPT !.u[q0.lastCapturedUpdate].next = update,
                            !.q[wq].lastCapturedUpdate = update]
  IN IF q0.expirationTime = NoWork \/ q0.expirationTime > renderExpirationTime
     THEN [H1 EXCEPT !.q[wq].expirationTime = renderExpirationTime]
     ELSE H1

\* ------------------------------------------------------------------ process
\* An effect list that grows at its head.
addToEffectList_prepend(H, queue, update) ==
  LET fe == H.q[queue].firstEffect
  IN IF fe = Null
     THEN [H EXCEPT !.u[update].nextEffect = Null,
                    !.q[queue].firstEffect = update,
                    !.q[queue].lastEffect = update]
     ELSE [H EXCEPT !.u[update].nextEffect = fe,
                    !.q[queue].firstEffect = update]


addToEffectList(H, queue, update) ==
  LET H1 == [H EXCEPT !.u[update].nextEffect = Null]
      le == H1.q[queue].lastEffect
  IN IF le = Null
     THEN [H1 EXCEPT !.q[queue].firstEffect = update,
                     !.q[queue].lastEffect = update]
     ELSE [H1 EXCEPT !.u[le].nextEffect = update,
                     !.q[queue].lastEffect = update]

\* Line 417, process(workInProgress, prevState): the update's process function
\* runs. A "throwOnce" function throws the first time it is invoked; a
\* "setStateOnce" function schedules an update on the fiber it was given, with
\* its own expiration time, the first time it is invoked. Both append to the
\* state otherwise, as "append" does.
InvokeProcess(H, workInProgress, update, prevState) ==
  LET kind == H.u[update].process
      first == H.calls[update] = 0
      H1 == [H EXCEPT !.calls[update] = IF @ < 2 THEN @ + 1 ELSE @]
  IN IF kind = "throwOnce" /\ first
     THEN [H |-> [H1 EXCEPT !.threw = TRUE], state |-> prevState]
     ELSE IF kind = "setStateOnce" /\ first
     THEN LET n == NewUpdateId(H1)
              e == H1.u[update].expirationTime
              H2 == [H1 EXCEPT !.u[n] = [createUpdate(e) EXCEPT
                                           !.process = "append"]]
          IN [H |-> enqueueUpdate(H2, workInProgress, n, e),
              state |-> ApplyProcess(kind, update, prevState)]
     ELSE [H |-> H1, state |-> ApplyProcess(kind, update, prevState)]

\* Returns the heap after the call and the state the call returns.
processSingleUpdate(H, workInProgress, queue, update, prevState) ==
  LET upd == H.u[update]
      H1 == IF upd.commit
            THEN addToEffectList([H EXCEPT !.f[workInProgress].effectTag = TRUE],
                                 queue, update)
            ELSE H
  IN IF upd.process # "null"
     THEN InvokeProcess(H1, workInProgress, update, prevState)
     ELSE [H |-> H1, state |-> prevState]

\* A pass that skips the updates of its own priority too.
Insufficient_orEqual(updateExpirationTime, renderExpirationTime) ==
  updateExpirationTime >= renderExpirationTime

\* Whether an update is skipped by a pass at renderExpirationTime (line 467).
Insufficient(updateExpirationTime, renderExpirationTime) ==
  updateExpirationTime > renderExpirationTime

\* Lines 479-484: fold a skipped update's expiration time into the remainder.
remainingExpirationTime(newExpirationTime, updateExpirationTime) ==
  IF newExpirationTime = NoWork \/ newExpirationTime > updateExpirationTime
  THEN updateExpirationTime
  ELSE newExpirationTime

\* A pass that starts from the state the fiber memoized, not the base state.
ProcessLocals_fromMemoized(H, queue) ==
  [H |-> H,
   newBaseState |-> H.q[queue].baseState,
   newFirstUpdate |-> Null,
   newFirstRenderPhaseUpdate |-> Null,
   newFirstCapturedUpdate |-> Null,
   newExpirationTime |-> NoWork,
   resultState |->
     LET owner == CHOOSE j \in FiberIds :
                    H.f[j].updateQueue = queue
                    /\ \A k \in FiberIds :
                         H.f[k].updateQueue = queue => k <= j
     IN H.f[owner].memoizedState]

\* The locals of processUpdateQueue as it enters its first loop (lines 458-464).
ProcessLocals(H, queue) ==
  [H |-> H,
   newBaseState |-> H.q[queue].baseState,
   newFirstUpdate |-> Null,
   newFirstRenderPhaseUpdate |-> Null,
   newFirstCapturedUpdate |-> Null,
   newExpirationTime |-> NoWork,
   resultState |-> H.q[queue].baseState]

\* A loop body that keeps an eligible update in the list, as if it had been
\* skipped, when its process function leaves the state as it was.
ProcessEligible_keepIfUnchanged(S, workInProgress, queue, update) ==
  LET r == processSingleUpdate(S.H, workInProgress, queue, update, S.resultState)
  IN IF r.state = S.resultState
     THEN [S EXCEPT
            !.H = r.H,
            !.newFirstUpdate = IF S.newFirstUpdate = Null THEN update ELSE @,
            !.newBaseState = IF S.newFirstUpdate = Null THEN S.resultState ELSE @]
     ELSE [S EXCEPT !.H = r.H, !.resultState = r.state]


\* One iteration of a loop body on an eligible update (lines 488-493).
ProcessEligible(S, workInProgress, queue, update) ==
  LET r == processSingleUpdate(S.H, workInProgress, queue, update, S.resultState)
  IN [S EXCEPT !.H = r.H, !.resultState = r.state]

\* A skip that records every skipped update as the first of the new list.
skipUpdate_last(S, update, updateExpirationTime) ==
  [S EXCEPT
    !.newFirstUpdate = update,
    !.newBaseState = IF S.newFirstUpdate = Null THEN S.resultState ELSE @,
    !.newExpirationTime = remainingExpirationTime(@, updateExpirationTime)]

\* Lines 468-484: an update of the persistent list is skipped.
skipUpdate(S, update, updateExpirationTime) ==
  [S EXCEPT
    !.newFirstUpdate = IF S.newFirstUpdate = Null THEN update ELSE @,
    !.newBaseState = IF S.newFirstUpdate = Null THEN S.resultState ELSE @,
    !.newExpirationTime = remainingExpirationTime(@, updateExpirationTime)]

\* A skip in the render phase list that takes the base state even when an
\* update of the persistent list was skipped before.
skipRenderPhaseUpdate_overwrite(S, update, updateExpirationTime) ==
  [S EXCEPT
    !.newFirstRenderPhaseUpdate =
       IF S.newFirstRenderPhaseUpdate = Null THEN update ELSE @,
    !.newBaseState =
       IF S.newFirstRenderPhaseUpdate = Null THEN S.resultState ELSE @,
    !.newExpirationTime = remainingExpirationTime(@, updateExpirationTime)]

\* Lines 505-523: an update of the render phase list is skipped.
skipRenderPhaseUpdate(S, update, updateExpirationTime) ==
  [S EXCEPT
    !.newFirstRenderPhaseUpdate =
       IF S.newFirstRenderPhaseUpdate = Null THEN update ELSE @,
    !.newBaseState =
       IF S.newFirstRenderPhaseUpdate = Null /\ S.newFirstUpdate = Null
       THEN S.resultState ELSE @,
    !.newExpirationTime = remainingExpirationTime(@, updateExpirationTime)]

\* Lines 543-561: an update of the captured list is skipped.
skipCapturedUpdate(S, update, updateExpirationTime) ==
  [S EXCEPT
    !.newFirstCapturedUpdate =
       IF S.newFirstCapturedUpdate = Null THEN update ELSE @,
    !.newBaseState =
       IF /\ S.newFirstCapturedUpdate = Null
          /\ S.newFirstUpdate = Null
          /\ S.newFirstRenderPhaseUpdate = Null
       THEN S.resultState ELSE @,
    !.newExpirationTime = remainingExpirationTime(@, updateExpirationTime)]

\* The while loop of lines 465-497, over the persistent list. fuel bounds the
\* walk: a list longer than the arena is cyclic and the loop never ends.
RECURSIVE loopUpdates(_, _, _, _, _, _)
loopUpdates(S, workInProgress, queue, update, renderExpirationTime, fuel) ==
  IF update = Null \/ S.H.threw THEN S
  ELSE IF fuel = 0 THEN [S EXCEPT !.H.hung = TRUE]
  ELSE LET updateExpirationTime == S.H.u[update].expirationTime
           S1 == IF Insufficient(updateExpirationTime, renderExpirationTime)
                 THEN skipUpdate(S, update, updateExpirationTime)
                 ELSE ProcessEligible(S, workInProgress, queue, update)
       IN loopUpdates(S1, workInProgress, queue, S1.H.u[update].next,
                      renderExpirationTime, fuel - 1)

\* The while loop of lines 502-535, over the render phase list.
RECURSIVE loopRenderPhase(_, _, _, _, _, _)
loopRenderPhase(S, workInProgress, queue, update, renderExpirationTime, fuel) ==
  IF update = Null \/ S.H.threw THEN S
  ELSE IF fuel = 0 THEN [S EXCEPT !.H.hung = TRUE]
  ELSE LET updateExpirationTime == S.H.u[update].expirationTime
           S1 == IF Insufficient(updateExpirationTime, renderExpirationTime)
                 THEN skipRenderPhaseUpdate(S, update, updateExpirationTime)
                 ELSE ProcessEligible(S, workInProgress, queue, update)
       IN loopRenderPhase(S1, workInProgress, queue, S1.H.u[update].next,
                          renderExpirationTime, fuel - 1)

\* The while loop of lines 540-573, over the captured list.
RECURSIVE loopCaptured(_, _, _, _, _, _)
loopCaptured(S, workInProgress, queue, update, renderExpirationTime, fuel) ==
  IF update = Null \/ S.H.threw THEN S
  ELSE IF fuel = 0 THEN [S EXCEPT !.H.hung = TRUE]
  ELSE LET updateExpirationTime == S.H.u[update].expirationTime
           S1 == IF Insufficient(updateExpirationTime, renderExpirationTime)
                 THEN skipCapturedUpdate(S, update, updateExpirationTime)
                 ELSE ProcessEligible(S, workInProgress, queue, update)
       IN loopCaptured(S1, workInProgress, queue, S1.H.u[update].next,
                       renderExpirationTime, fuel - 1)

\* A pass that stores its result as the base state even after a skip.
storedBaseState_result(S) == S.resultState

\* Lines 588-598: the base state the pass stores.
storedBaseState(S) ==
  IF /\ S.newFirstUpdate = Null
     /\ S.newFirstRenderPhaseUpdate = Null
     /\ S.newFirstCapturedUpdate = Null
  THEN S.resultState
  ELSE S.newBaseState

\* A pass that empties the lists whatever it skipped.
StoreProcessed_dropSkipped(S, workInProgress, queue) ==
  LET q0 == S.H.q[queue]
      q1 == [q0 EXCEPT
              !.lastUpdate = Null,
              !.lastRenderPhaseUpdate = Null,
              !.lastCapturedUpdate = Null,
              !.baseState = storedBaseState(S),
              !.firstUpdate = Null,
              !.firstRenderPhaseUpdate = Null,
              !.firstCapturedUpdate = Null,
              !.expirationTime = S.newExpirationTime,
              !.isProcessing = FALSE]
  IN [S.H EXCEPT !.q[queue] = q1,
                 !.f[workInProgress].memoizedState = S.resultState]

\* Stores that leave the fiber's effect tag as the loops left it.
StoreProcessed_noEffectTag(S, workInProgress, queue) ==
  LET q0 == S.H.q[queue]
      q1 == [q0 EXCEPT
              !.lastUpdate = IF S.newFirstUpdate = Null THEN Null ELSE @,
              !.lastRenderPhaseUpdate =
                 IF S.newFirstRenderPhaseUpdate = Null THEN Null ELSE @,
              !.lastCapturedUpdate =
                 IF S.newFirstCapturedUpdate = Null THEN Null ELSE @,
              !.baseState = storedBaseState(S),
              !.firstUpdate = S.newFirstUpdate,
              !.firstRenderPhaseUpdate = S.newFirstRenderPhaseUpdate,
              !.firstCapturedUpdate = S.newFirstCapturedUpdate,
              !.expirationTime = S.newExpirationTime,
              !.isProcessing = FALSE]
  IN [S.H EXCEPT !.q[queue] = q1,
                 !.f[workInProgress].memoizedState = S.resultState]

\* Stores that leave the queue's expiration time as it was before the pass.
StoreProcessed_keepExpirationTime(S, workInProgress, queue) ==
  LET q0 == S.H.q[queue]
      q1 == [q0 EXCEPT
              !.lastUpdate = IF S.newFirstUpdate = Null THEN Null ELSE @,
              !.lastRenderPhaseUpdate =
                 IF S.newFirstRenderPhaseUpdate = Null THEN Null ELSE @,
              !.lastCapturedUpdate =
                 IF S.newFirstCapturedUpdate = Null THEN Null ELSE @,
              !.baseState = storedBaseState(S),
              !.firstUpdate = S.newFirstUpdate,
              !.firstRenderPhaseUpdate = S.newFirstRenderPhaseUpdate,
              !.firstCapturedUpdate = S.newFirstCapturedUpdate,
              !.isProcessing = FALSE]
      tag == S.H.f[workInProgress].effectTag
             \/ S.newFirstRenderPhaseUpdate # Null
             \/ S.newFirstCapturedUpdate # Null
  IN [S.H EXCEPT !.q[queue] = q1,
                 !.f[workInProgress].memoizedState = S.resultState,
                 !.f[workInProgress].effectTag = tag]

\* Lines 575-604: store the locals into the queue and the fiber.
StoreProcessed(S, workInProgress, queue) ==
  LET q0 == S.H.q[queue]
      q1 == [q0 EXCEPT
              !.lastUpdate = IF S.newFirstUpdate = Null THEN Null ELSE @,
              !.lastRenderPhaseUpdate =
                 IF S.newFirstRenderPhaseUpdate = Null THEN Null ELSE @,
              !.lastCapturedUpdate =
                 IF S.newFirstCapturedUpdate = Null THEN Null ELSE @,
              !.baseState = storedBaseState(S),
              !.firstUpdate = S.newFirstUpdate,
              !.firstRenderPhaseUpdate = S.newFirstRenderPhaseUpdate,
              !.firstCapturedUpdate = S.newFirstCapturedUpdate,
              !.expirationTime = S.newExpirationTime,
              !.isProcessing = FALSE]
      tag == S.H.f[workInProgress].effectTag
             \/ S.newFirstRenderPhaseUpdate # Null
             \/ S.newFirstCapturedUpdate # Null
  IN [S.H EXCEPT !.q[queue] = q1,
                 !.f[workInProgress].memoizedState = S.resultState,
                 !.f[workInProgress].effectTag = tag]

\* A pass that returns at once only when the queue has no work at all.
Bailout_noWorkOnly(H, queue, renderExpirationTime) ==
  H.q[queue].expirationTime = NoWork

\* Lines 443-449: the pass returns at once.
Bailout(H, queue, renderExpirationTime) ==
  \/ H.q[queue].expirationTime = NoWork
  \/ H.q[queue].expirationTime > renderExpirationTime

\* A pass that stores what it has computed when a process function throws.
processUpdateQueue_storeOnThrow(H, workInProgress, queue, renderExpirationTime) ==
  IF Bailout(H, queue, renderExpirationTime) THEN H
  ELSE LET H0 == ensureWorkInProgressQueueIsAClone(H, workInProgress, queue)
           q == H0.f[workInProgress].updateQueue
           H1 == IF H0.d.dev THEN [H0 EXCEPT !.q[q].isProcessing = TRUE]
                 ELSE H0
           S0 == ProcessLocals(H1, q)
           S1 == loopUpdates(S0, workInProgress, q, S0.H.q[q].firstUpdate,
                             renderExpirationTime, ArenaSize)
           S2 == loopRenderPhase(S1, workInProgress, q,
                                 S1.H.q[q].firstRenderPhaseUpdate,
                                 renderExpirationTime, ArenaSize)
           S3 == loopCaptured(S2, workInProgress, q,
                              S2.H.q[q].firstCapturedUpdate,
                              renderExpirationTime, ArenaSize)
       IN IF S3.H.hung THEN S3.H
          ELSE StoreProcessed(S3, workInProgress, q)

\* Lines 438-609. An exception leaves the function before the stores of lines
\* 575-608.
processUpdateQueue(H, workInProgress, queue, renderExpirationTime) ==
  IF Bailout(H, queue, renderExpirationTime) THEN H
  ELSE LET H0 == ensureWorkInProgressQueueIsAClone(H, workInProgress, queue)
           q == H0.f[workInProgress].updateQueue
           H1 == IF H0.d.dev THEN [H0 EXCEPT !.q[q].isProcessing = TRUE]
                 ELSE H0
           S0 == ProcessLocals(H1, q)
           S1 == loopUpdates(S0, workInProgress, q, S0.H.q[q].firstUpdate,
                             renderExpirationTime, ArenaSize)
           S2 == loopRenderPhase(S1, workInProgress, q,
                                 S1.H.q[q].firstRenderPhaseUpdate,
                                 renderExpirationTime, ArenaSize)
           S3 == loopCaptured(S2, workInProgress, q,
                              S2.H.q[q].firstCapturedUpdate,
                              renderExpirationTime, ArenaSize)
       IN IF S3.H.hung \/ S3.H.threw THEN S3.H
          ELSE StoreProcessed(S3, workInProgress, q)

\* ------------------------------------------------------------------- commit
\* Lines 645-649: invoke the callback of the effect, once.
fireCommit(H, effect) ==
  IF H.u[effect].commit
  THEN [H EXCEPT !.u[effect].commit = FALSE, !.fired = Append(@, effect)]
  ELSE H

\* The while loop of lines 644-651. A walk longer than the arena is a cycle.
RECURSIVE commitEffects(_, _, _)
commitEffects(H, effect, fuel) ==
  IF effect = Null THEN H
  ELSE IF fuel = 0 THEN [H EXCEPT !.hung = TRUE]
  ELSE LET H1 == fireCommit(H, effect)
       IN commitEffects(H1, H1.u[effect].nextEffect, fuel - 1)

\* Lines 620-628: join the render phase list to the end of the normal list.
spliceRenderPhase(H, finishedQueue) ==
  LET q0 == H.q[finishedQueue]
  IN IF q0.firstRenderPhaseUpdate # Null
     THEN LET H1 == IF q0.lastUpdate # Null
                    THEN [H EXCEPT
                           !.u[q0.lastUpdate].next = q0.firstRenderPhaseUpdate,
                           !.q[finishedQueue].lastUpdate = q0.lastRenderPhaseUpdate]
                    ELSE H
          IN [H1 EXCEPT !.q[finishedQueue].firstRenderPhaseUpdate = Null,
                        !.q[finishedQueue].lastRenderPhaseUpdate = Null]
     ELSE H

\* Lines 631-639: the same with the captured list.
spliceCaptured(H, finishedQueue) ==
  LET q0 == H.q[finishedQueue]
  IN IF q0.firstCapturedUpdate # Null
     THEN LET H1 == IF q0.lastUpdate # Null
                    THEN [H EXCEPT
                           !.u[q0.lastUpdate].next = q0.firstCapturedUpdate,
                           !.q[finishedQueue].lastUpdate = q0.lastCapturedUpdate]
                    ELSE H
          IN [H1 EXCEPT !.q[finishedQueue].firstCapturedUpdate = Null,
                        !.q[finishedQueue].lastCapturedUpdate = Null]
     ELSE H

\* A commit that walks the effect list and leaves it on the queue.
commitUpdateQueue_keepEffectList(H, finishedWork, finishedQueue) ==
  LET H1 == spliceCaptured(spliceRenderPhase(H, finishedQueue), finishedQueue)
  IN commitEffects(H1, H1.q[finishedQueue].firstEffect, ArenaSize)


\* A commit that also marks the finished queue as having no work left.
commitUpdateQueue_resetExpirationTime(H, finishedWork, finishedQueue) ==
  LET H1 == spliceCaptured(spliceRenderPhase(H, finishedQueue), finishedQueue)
      effect == H1.q[finishedQueue].firstEffect
      H2 == [H1 EXCEPT !.q[finishedQueue].firstEffect = Null,
                       !.q[finishedQueue].lastEffect = Null,
                       !.q[finishedQueue].expirationTime = NoWork]
  IN commitEffects(H2, effect, ArenaSize)

\* Lines 611-652: commitUpdateQueue.
commitUpdateQueue(H, finishedWork, finishedQueue) ==
  LET H1 == spliceCaptured(spliceRenderPhase(H, finishedQueue), finishedQueue)
      effect == H1.q[finishedQueue].firstEffect
      H2 == [H1 EXCEPT !.q[finishedQueue].firstEffect = Null,
                       !.q[finishedQueue].lastEffect = Null]
  IN commitEffects(H2, effect, ArenaSize)

\* ------------------------------------------------------------- list views
\* The updates reached from first by following next (nextEffect), at most
\* fuel of them.
RECURSIVE Chain(_, _, _)
Chain(u, first, fuel) ==
  IF first = Null \/ fuel = 0 THEN <<>>
  ELSE <<first>> \o Chain(u, u[first].next, fuel - 1)

RECURSIVE EffectChain(_, _, _)
EffectChain(u, first, fuel) ==
  IF first = Null \/ fuel = 0 THEN <<>>
  ELSE <<first>> \o EffectChain(u, u[first].nextEffect, fuel - 1)

Range(s) == {s[i] : i \in 1..Len(s)}

PersistentList(H, queue) == Chain(H.u, H.q[queue].firstUpdate, ArenaSize + 1)
RenderPhaseList(H, queue) ==
  Chain(H.u, H.q[queue].firstRenderPhaseUpdate, ArenaSize + 1)
CapturedList(H, queue) ==
  Chain(H.u, H.q[queue].firstCapturedUpdate, ArenaSize + 1)
EffectList(H, queue) == EffectChain(H.u, H.q[queue].firstEffect, ArenaSize + 1)

\* What a pass over the queue walks, in the order it walks it.
ProcessingOrder(H, queue) ==
  PersistentList(H, queue) \o RenderPhaseList(H, queue) \o CapturedList(H, queue)

WorkInProgress == fibers[Current].alternate

\* ------------------------------------------------------------------ actions
NoOp == [op |-> "init", prio |-> NoWork, bailout |-> FALSE,
         allEligible |-> FALSE, threw |-> FALSE]

\* A __DEV__ build and a class component, before any warning.
NoDiagnostics ==
  [dev |-> TRUE, tagIsClassComponent |-> TRUE,
   didWarnUpdateInsideUpdate |-> FALSE, warnings |-> 0, reentered |-> 0]

\* One committed fiber with no queue and the empty state; nothing is in progress.
Constructed ==
  /\ updates = [i \in UpdIds |-> FreeUpdate]
  /\ queues = [i \in QIds |-> FreeQueue]
  /\ fibers = [i \in FiberIds |->
                 IF i = 1 THEN [NoFiber EXCEPT !.alloc = TRUE] ELSE NoFiber]
  /\ phase = "idle"
  /\ hung = FALSE
  /\ fired = <<>>
  /\ calls = [i \in UpdIds |-> 0]
  /\ withCommit = {}
  /\ last = NoOp

Init == Constructed /\ diagnostics = NoDiagnostics

Store(H) ==
  LET G == Collect(H)
  IN /\ updates' = G.u
     /\ queues' = G.q
     /\ fibers' = G.f
     /\ fired' = G.fired
     /\ calls' = G.calls
     /\ hung' = G.hung
     /\ diagnostics' = G.d

NumAllocated == Cardinality({i \in UpdIds : updates[i].alloc})

CanAllocate == NumAllocated < MaxUpdates

\* createUpdate, and the caller's assignments to update.process and
\* update.commit.
NewUpdate(H, n, expirationTime, shape) ==
  [H EXCEPT !.u[n] = [createUpdate(expirationTime) EXCEPT
                        !.process = shape.process, !.commit = shape.commit]]

\* The caller of enqueueUpdate: setState and the like create the update with the
\* expiration time of the request, set its process and commit, and enqueue it on
\* whichever fiber of the pair they hold.
EnqueueUpdateAct ==
  /\ ~hung /\ CanAllocate
  /\ \E fiber \in FiberIds, p \in Priorities, sh \in UpdateShapes :
       /\ fibers[fiber].alloc
       /\ LET n == NewUpdateId(Heap)
          IN /\ Store(enqueueUpdate(NewUpdate(Heap, n, p, sh), fiber, n, p))
             /\ withCommit' = IF sh.commit THEN withCommit \cup {n} ELSE withCommit
             /\ last' = [NoOp EXCEPT !.op = "enqueueUpdate"]
  /\ UNCHANGED phase

\* A render pass begins, or begins again after the previous one was discarded:
\* the work-in-progress fiber is created if the pair has only one fiber, and
\* takes the committed fiber's queue (by reference) and memoized state.
createWorkInProgress(H, cur) ==
  LET H0 == IF H.f[cur].alternate = Null
            THEN LET w == CHOOSE i \in FiberIds : i # cur
                 IN [H EXCEPT !.f[w] = [NoFiber EXCEPT !.alloc = TRUE,
                                                       !.alternate = cur],
                              !.f[cur].alternate = w]
            ELSE H
      w == H0.f[cur].alternate
  IN [H0 EXCEPT !.f[w].updateQueue = H0.f[cur].updateQueue,
                !.f[w].memoizedState = H0.f[cur].memoizedState,
                !.f[w].effectTag = FALSE]

BeginAct ==
  /\ ~hung /\ phase = "idle"
  /\ Store(createWorkInProgress(Heap, Current))
  /\ phase' = "render"
  /\ last' = [NoOp EXCEPT !.op = "begin"]
  /\ UNCHANGED withCommit

RestartAct ==
  /\ ~hung /\ phase \in {"render", "processed", "reprocessed"}
  /\ Store(createWorkInProgress(Heap, Current))
  /\ phase' = "render"
  /\ last' = [NoOp EXCEPT !.op = "restart"]
  /\ UNCHANGED withCommit

AllEligible(H, queue, renderExpirationTime) ==
  \A x \in Range(ProcessingOrder(H, queue)) :
     H.u[x].expirationTime <= renderExpirationTime

\* Every update a "setStateOnce" function of the queue may still schedule has a
\* slot in the arena, within the bound on the number of updates.
RoomForCallbacks(H, queue) ==
  LET pending == {x \in Range(ProcessingOrder(H, queue)) :
                    H.u[x].process = "setStateOnce" /\ H.calls[x] = 0}
  IN IF pending = {} THEN TRUE
     ELSE Cardinality(pending) + Cardinality({i \in UpdIds : H.u[i].alloc})
            <= MaxUpdates

Process(phases, after) ==
  /\ ~hung /\ phase \in phases
  /\ WorkInProgress # Null
  /\ fibers[WorkInProgress].updateQueue # Null
  /\ \E p \in Priorities :
       LET w == WorkInProgress
           q == fibers[w].updateQueue
           done == processUpdateQueue(Heap, w, q, p)
       IN /\ RoomForCallbacks(Heap, q)
          /\ Store(done)
          /\ phase' = IF Bailout(Heap, q, p) \/ done.threw THEN phase
                      ELSE after
          /\ last' = [NoOp EXCEPT !.op = "process", !.prio = p,
                                  !.bailout = Bailout(Heap, q, p),
                                  !.allEligible = AllEligible(Heap, q, p),
                                  !.threw = done.threw]
  /\ UNCHANGED withCommit

\* A pass over a work-in-progress that no pass has processed yet.
ProcessAct == Process({"render"}, "processed")

\* A further pass over a work-in-progress that was not committed in between.
ReprocessAct == Process({"processed", "reprocessed"}, "reprocessed")

EnqueueRenderPhaseUpdateAct ==
  /\ ~hung /\ CanAllocate /\ phase \in {"render", "processed", "reprocessed"}
  /\ \E p \in Priorities, sh \in UpdateShapes :
       LET n == NewUpdateId(Heap)
       IN /\ Store(enqueueRenderPhaseUpdate(NewUpdate(Heap, n, p, sh),
                                            WorkInProgress, n, p))
          /\ withCommit' = IF sh.commit THEN withCommit \cup {n} ELSE withCommit
          /\ last' = [NoOp EXCEPT !.op = "enqueueRenderPhaseUpdate"]
  /\ UNCHANGED phase

EnqueueCapturedUpdateAct ==
  /\ ~hung /\ CanAllocate /\ phase \in {"render", "processed", "reprocessed"}
  /\ \E p \in Priorities, sh \in UpdateShapes :
       LET n == NewUpdateId(Heap)
       IN /\ Store(enqueueCapturedUpdate(NewUpdate(Heap, n, p, sh),
                                            WorkInProgress, n, p))
          /\ withCommit' = IF sh.commit THEN withCommit \cup {n} ELSE withCommit
          /\ last' = [NoOp EXCEPT !.op = "enqueueCapturedUpdate"]
  /\ UNCHANGED phase

\* The render pass is accepted: the finished work's queue is committed and the
\* finished work becomes the committed view.
swapRoles(H) ==
  [H EXCEPT !.f = [j \in FiberIds |-> [H.f[3 - j] EXCEPT !.alternate = 3 - j]]]

Commit(phases) ==
  /\ ~hung /\ phase \in phases
  /\ LET w == WorkInProgress
         q == fibers[w].updateQueue
     IN /\ Store(swapRoles(IF q # Null THEN commitUpdateQueue(Heap, w, q)
                                      ELSE Heap))
        /\ last' = [NoOp EXCEPT !.op = "commit"]
  /\ phase' = "idle"
  /\ UNCHANGED withCommit

\* The pass that is accepted ran at most once over its work-in-progress.
CommitAct == Commit({"render", "processed"})

\* The work-in-progress that is accepted was processed more than once.
CommitReprocessedAct == Commit({"reprocessed"})

\* enqueueUpdate with an update whose process function returns the state it
\* was given.
EnqueueIdentityAct ==
  /\ ~hung /\ CanAllocate
  /\ \E fiber \in FiberIds, p \in Priorities, c \in BOOLEAN :
       /\ fibers[fiber].alloc
       /\ LET n == NewUpdateId(Heap)
              sh == [process |-> "same", commit |-> c]
          IN /\ Store(enqueueUpdate(NewUpdate(Heap, n, p, sh), fiber, n, p))
             /\ withCommit' = IF c THEN withCommit \cup {n} ELSE withCommit
             /\ last' = [NoOp EXCEPT !.op = "enqueueUpdate"]
  /\ UNCHANGED phase


\* enqueueUpdate with an update whose process function has a side effect: it
\* throws, or schedules another update, the first time it runs.
EnqueueCallback(kinds, commits) ==
  /\ ~hung /\ CanAllocate
  /\ \E fiber \in FiberIds, p \in Priorities, c \in commits, k \in kinds :
       /\ fibers[fiber].alloc
       /\ k = "setStateOnce" => NumAllocated + 2 <= MaxUpdates
       /\ LET n == NewUpdateId(Heap)
              sh == [process |-> k, commit |-> c]
          IN /\ Store(enqueueUpdate(NewUpdate(Heap, n, p, sh), fiber, n, p))
             /\ withCommit' = IF c THEN withCommit \cup {n} ELSE withCommit
             /\ last' = [NoOp EXCEPT !.op = "enqueueUpdate"]
  /\ UNCHANGED phase

EnqueueCallbackAct == EnqueueCallback({"setStateOnce", "throwOnce"}, {FALSE})

EnqueueThrowingAct == EnqueueCallback({"throwOnce"}, {FALSE})

\* enqueueRenderPhaseUpdate with an update whose process function calls
\* enqueueUpdate on the work-in-progress the first time it runs.
EnqueueRenderPhaseCallbackAct ==
  /\ ~hung /\ NumAllocated + 2 <= MaxUpdates
  /\ phase \in {"render", "processed", "reprocessed"}
  /\ \E p \in Priorities :
       LET n == NewUpdateId(Heap)
           sh == [process |-> "setStateOnce", commit |-> FALSE]
       IN /\ Store(enqueueRenderPhaseUpdate(NewUpdate(Heap, n, p, sh),
                                            WorkInProgress, n, p))
          /\ last' = [NoOp EXCEPT !.op = "enqueueRenderPhaseUpdate"]
  /\ UNCHANGED <<phase, withCommit>>


\* ------------------------------------------------------- the header example
\* The updates of the example, enqueued in order; each appends its letter.
EnqueueExampleAct ==
  /\ ~hung /\ NumAllocated < Len(ExamplePriorities)
  /\ \E fiber \in FiberIds :
       /\ fibers[fiber].alloc
       /\ LET n == NewUpdateId(Heap)
              p == ExamplePriorities[n]
              sh == [process |-> "append", commit |-> FALSE]
          IN /\ Store(enqueueUpdate(NewUpdate(Heap, n, p, sh), fiber, n, p))
             /\ last' = [NoOp EXCEPT !.op = "enqueueUpdate"]
  /\ UNCHANGED <<phase, withCommit>>

Next ==
  \/ EnqueueUpdateAct
  \/ BeginAct
  \/ RestartAct
  \/ ProcessAct
  \/ ReprocessAct
  \/ EnqueueRenderPhaseUpdateAct
  \/ EnqueueCapturedUpdateAct
  \/ CommitAct
  \/ CommitReprocessedAct

Spec == Init /\ [][Next]_vars

\* Accepted passes only: updates come in through enqueueUpdate, every pass runs
\* once over a fresh work-in-progress and is then committed.
NextAccepted ==
  \/ EnqueueUpdateAct
  \/ BeginAct
  \/ ProcessAct
  \/ CommitAct

SpecAccepted == Init /\ [][NextAccepted]_vars

\* enqueueUpdate only; a render may run several passes and be discarded and
\* begun again, and the pass that is accepted ran once.
NextPersistent ==
  \/ EnqueueUpdateAct
  \/ BeginAct
  \/ RestartAct
  \/ ProcessAct
  \/ ReprocessAct
  \/ CommitAct

SpecPersistent == Init /\ [][NextPersistent]_vars

\* The passes of one render: the three kinds of enqueue (and a fourth update,
\* of the example's shape), and passes over the work-in-progress; nothing is
\* committed or discarded.
NextRender ==
  \/ EnqueueUpdateAct
  \/ EnqueueExampleAct
  \/ BeginAct
  \/ EnqueueRenderPhaseUpdateAct
  \/ EnqueueCapturedUpdateAct
  \/ ProcessAct
  \/ ReprocessAct

SpecRender == Init /\ [][NextRender]_vars

NextExample ==
  \/ EnqueueExampleAct
  \/ BeginAct
  \/ RestartAct
  \/ ProcessAct
  \/ CommitAct

SpecExample == Init /\ [][NextExample]_vars

\* Accepted passes over updates that change the state, that leave it as it is,
\* and that have no process function.
NextEligibility ==
  \/ EnqueueUpdateAct
  \/ EnqueueIdentityAct
  \/ BeginAct
  \/ ProcessAct
  \/ CommitAct

SpecEligibility == Init /\ [][NextEligibility]_vars


\* A __DEV__ build with a class component or with a fiber of another tag, and
\* a build without __DEV__.
Builds ==
  {NoDiagnostics,
   [NoDiagnostics EXCEPT !.tagIsClassComponent = FALSE],
   [NoDiagnostics EXCEPT !.dev = FALSE]}

InitBuilds == Constructed /\ diagnostics \in Builds

\* Accepted passes, in either build, over updates whose process functions throw
\* or schedule updates; a pass that threw is run again.
NextCallbacks ==
  \/ EnqueueUpdateAct
  \/ EnqueueCallbackAct
  \/ BeginAct
  \/ ProcessAct
  \/ CommitAct

SpecCallbacks == InitBuilds /\ [][NextCallbacks]_vars

\* Passes over updates whose process functions may throw: a pass that threw is
\* run again on the same work-in-progress, or the render starts again.
NextThrowing ==
  \/ EnqueueUpdateAct
  \/ EnqueueThrowingAct
  \/ EnqueueRenderPhaseUpdateAct
  \/ BeginAct
  \/ RestartAct
  \/ ProcessAct
  \/ CommitAct

SpecThrowing == Init /\ [][NextThrowing]_vars


\* Accepted passes over persistent and render phase updates whose process
\* functions schedule updates.
NextReentrant ==
  \/ EnqueueUpdateAct
  \/ EnqueueCallbackAct
  \/ EnqueueRenderPhaseCallbackAct
  \/ BeginAct
  \/ ProcessAct
  \/ CommitAct

SpecReentrant == Init /\ [][NextReentrant]_vars


\* ------------------------------------------------------------------ claims
\* The state every update's process function yields when each is applied once,
\* in the order the updates were created, to the initial (empty) state.
RECURSIVE FoldProcess(_, _)
FoldProcess(u, n) ==
  IF n = 0 THEN <<>>
  ELSE ApplyProcess(u[n].process, n, FoldProcess(u, n - 1))

ExpectedState == FoldProcess(updates, NumAllocated)

\* C1. Order-independent convergence: after any series of accepted passes at
\* arbitrary priorities, a pass at which every remaining update is eligible
\* leaves the memoized state equal to all the enqueued updates applied once
\* each, in enqueue order, to the initial state.
C1_Convergence ==
  (last.op = "process" /\ last.allEligible)
    => fibers[WorkInProgress].memoizedState = ExpectedState

\* A converging pass that rebased: some update was applied by an earlier pass
\* and again by this one, and every update of the bound has been enqueued.
C1_Witness ==
  /\ last.op = "process" /\ last.allEligible /\ ~last.bailout
  /\ \E x \in UpdIds : calls[x] = 2
  /\ Len(fibers[WorkInProgress].memoizedState) = MaxUpdates

\* The queue of the committed view (a free queue when it has none).
CommittedQueue ==
  IF fibers[Current].updateQueue = Null THEN FreeQueue
  ELSE queues[fibers[Current].updateQueue]

NoDuplicates(s) == \A i, j \in 1..Len(s) : s[i] = s[j] => i = j

\* The queue holds the last Len(list) updates enqueued, each once and in enqueue
\* order, on top of a base state made of all the updates before them.
Intact(u, queue) ==
  LET list == Chain(u, queue.firstUpdate, ArenaSize + 1)
      done == NumAllocated - Len(list)
  IN /\ done >= 0
     /\ list = [i \in 1..Len(list) |-> done + i]
     /\ queue.baseState = FoldProcess(u, done)

WorkInProgressQueue ==
  IF WorkInProgress = Null THEN FreeQueue
  ELSE IF fibers[WorkInProgress].updateQueue = Null THEN FreeQueue
  ELSE queues[fibers[WorkInProgress].updateQueue]

C2_Rebuilt == last.op = "restart" => Intact(updates, WorkInProgressQueue)

C2_Frame ==
  last'.op = "process" =>
     /\ CommittedQueue'.baseState = CommittedQueue.baseState
     /\ Chain(updates', CommittedQueue'.firstUpdate, ArenaSize + 1)
          = Chain(updates, CommittedQueue.firstUpdate, ArenaSize + 1)

C2_Final ==
  /\ (last.op = "process" /\ last.allEligible)
       => fibers[WorkInProgress].memoizedState = ExpectedState
  /\ (last.op = "commit" /\ CommittedQueue.firstUpdate = Null)
       => /\ Range(fired) = withCommit
          /\ NoDuplicates(fired)

\* C2. Abandon and restart: when a render that ran passes over its
\* work-in-progress is discarded and begun again, the rebuilt queue holds every
\* update enqueueUpdate added and no accepted pass consumed, once each and in
\* order; no pass changes the committed queue's base state or list; and the
\* accepted passes converge to the state and fire the commit actions of all the
\* updates, as they do when no render is discarded.
C2_AbandonAndRestart ==
  /\ [](C2_Rebuilt /\ C2_Final)
  /\ [][C2_Frame]_vars

\* A render was discarded after a pass had applied the first update of the
\* committed queue, and the rebuilt queue holds that update and a later one.
C2_Witness ==
  /\ last.op = "restart"
  /\ CommittedQueue.firstUpdate # Null
  /\ calls[CommittedQueue.firstUpdate] >= 1
  /\ Len(Chain(updates, WorkInProgressQueue.firstUpdate, ArenaSize + 1)) >= 2

IsIncreasing(s) == \A i, j \in 1..Len(s) : i < j => s[i] < s[j]

\* C3 as claimed. Effect ordering across passes: over any series of passes
\* each followed by a commit, the commit actions fire once each and in the
\* order in which their updates were enqueued (update ids grow in enqueue
\* order, so the sequence of fired actions is strictly increasing).
C3_EnqueueOrder == IsIncreasing(fired)

\* The pair has two distinct queue objects.
TwoQueues ==
  /\ WorkInProgress # Null
  /\ fibers[Current].updateQueue # Null
  /\ fibers[WorkInProgress].updateQueue # Null
  /\ fibers[Current].updateQueue # fibers[WorkInProgress].updateQueue

IsSuffix(s, t) ==
  /\ Len(s) <= Len(t)
  /\ s = SubSeq(t, Len(t) - Len(s) + 1, Len(t))

Occurrences(s, x) == Cardinality({i \in 1..Len(s) : s[i] = x})

\* The update created last.
Newest == NumAllocated

\* C4. Pairing fidelity: after enqueueUpdate on a pair with two distinct
\* queues, the new update is the lastUpdate of both queues, is reached exactly
\* once from each firstUpdate, and one persistent list is a suffix of the other.
C4_PairingFidelity ==
  (last.op = "enqueueUpdate" /\ TwoQueues) =>
     LET l1 == Chain(updates, CommittedQueue.firstUpdate, ArenaSize + 1)
         l2 == Chain(updates, WorkInProgressQueue.firstUpdate, ArenaSize + 1)
     IN /\ CommittedQueue.lastUpdate = Newest
        /\ WorkInProgressQueue.lastUpdate = Newest
        /\ Occurrences(l1, Newest) = 1
        /\ Occurrences(l2, Newest) = 1
        /\ IsSuffix(l1, l2) \/ IsSuffix(l2, l1)

\* enqueueUpdate found both queues non-empty: the committed queue holds three
\* updates, the work-in-progress queue, which has processed one, the last two.
C4_Witness ==
  /\ last.op = "enqueueUpdate" /\ TwoQueues
  /\ Chain(updates, CommittedQueue.firstUpdate, ArenaSize + 1) = <<1, 2, 3>>
  /\ Chain(updates, WorkInProgressQueue.firstUpdate, ArenaSize + 1) = <<2, 3>>

\* ---------------------------------------------------------- one pass, stated
\* The step is a pass of processUpdateQueue that did not bail out (and ended).
PassStep == last'.op = "process" /\ ~last'.bailout /\ ~hung'

\* The queue the pass was given and what it walks, before the pass.
PassQueue == fibers[WorkInProgress].updateQueue
PassOrder == ProcessingOrder(Heap, PassQueue)

Eligible(u, x, p) == u[x].expirationTime <= p

\* state folded through the process functions of the eligible updates of seq.
RECURSIVE FoldEligible(_, _, _, _)
FoldEligible(u, seq, p, state) ==
  IF seq = <<>> THEN state
  ELSE FoldEligible(u, Tail(seq), p,
         IF Eligible(u, Head(seq), p)
         THEN ApplyProcess(u[Head(seq)].process, Head(seq), state)
         ELSE state)

\* The index of the first element of seq that is in set (Len(seq) + 1 if none).
FirstIndex(seq, set) ==
  LET hits == {i \in 1..Len(seq) : seq[i] \in set}
  IN IF hits = {} THEN Len(seq) + 1
     ELSE CHOOSE i \in hits : \A j \in hits : i <= j

\* The part of seq before, and the part from, its first element in set.
UpTo(seq, set) == SubSeq(seq, 1, FirstIndex(seq, set) - 1)
From(seq, set) == SubSeq(seq, FirstIndex(seq, set), Len(seq))

IsPrefix(s, t) == Len(s) <= Len(t) /\ s = SubSeq(t, 1, Len(s))

C5_Retained ==
  PassStep =>
    LET p == last'.prio
        Skipped(x) == ~Eligible(updates, x, p)
        base == queues[PassQueue].baseState
    IN /\ \A x \in Range(PersistentList(Heap, PassQueue)) :
            Skipped(x) =>
              x \in Range(Chain(updates', WorkInProgressQueue'.firstUpdate,
                                ArenaSize + 1))
       /\ \A x \in Range(RenderPhaseList(Heap, PassQueue)) :
            Skipped(x) =>
              x \in Range(Chain(updates', WorkInProgressQueue'.firstRenderPhaseUpdate,
                                ArenaSize + 1))
       /\ \A x \in Range(CapturedList(Heap, PassQueue)) :
            Skipped(x) =>
              x \in Range(Chain(updates', WorkInProgressQueue'.firstCapturedUpdate,
                                ArenaSize + 1))
       /\ \A x \in Range(PassOrder) :
            ~Skipped(x) =>
              LET before == FoldEligible(updates, UpTo(PassOrder, {x}), p, base)
              IN IsPrefix(ApplyProcess(updates[x].process, x, before),
                          fibers'[WorkInProgress].memoizedState)

\* C5. No silent drop by the Processor: an update a pass skips, in any of the
\* three lists, is still reached from the head of its list after the pass; an
\* update a pass applies is applied on top of the state produced by the
\* updates before it in the lists.
C5_NoSilentDrop == [][C5_Retained]_vars

\* A pass applied an update and skipped one in the render phase list and one
\* in the captured list.
C5_Witness ==
  /\ last.op = "process" /\ ~last.bailout
  /\ fibers[WorkInProgress].memoizedState # <<>>
  /\ WorkInProgressQueue.firstRenderPhaseUpdate # Null
  /\ WorkInProgressQueue.firstCapturedUpdate # Null

C6_Residual ==
  PassStep =>
    LET p == last'.prio
        pre == PersistentList(Heap, PassQueue)
        skipped == {x \in Range(pre) : ~Eligible(updates, x, p)}
        post == Chain(updates', WorkInProgressQueue'.firstUpdate, ArenaSize + 1)
    IN skipped # {} =>
         /\ WorkInProgressQueue'.firstUpdate = pre[FirstIndex(pre, skipped)]
         /\ post = From(pre, skipped)

\* C6. Skip and rebase residual: after a pass skips an update of the persistent
\* list, firstUpdate is the first skipped update and every update after it is
\* still in the list, the eligible ones the pass applied included.
C6_SkipAndRebaseResidual == [][C6_Residual]_vars

\* The header comment's example: base state '', updates A1 - B2 - C1 - D2; the
\* pass at priority 1 yields 'AC', base state 'A' and the list B - C - D.
C6_Witness ==
  /\ last.op = "process" /\ last.prio = 1 /\ ~last.bailout
  /\ \A i \in 1..4 : /\ updates[i].expirationTime = ExamplePriorities[i]
                      /\ updates[i].process = "append"
  /\ fibers[WorkInProgress].memoizedState = <<1, 3>>
  /\ WorkInProgressQueue.baseState = <<1>>
  /\ Chain(updates, WorkInProgressQueue.firstUpdate, ArenaSize + 1) = <<2, 3, 4>>
  /\ calls = <<1, 0, 1, 0>>

C7_BaseState ==
  PassStep =>
    LET p == last'.prio
        skipped == {x \in Range(PassOrder) : ~Eligible(updates, x, p)}
    IN WorkInProgressQueue'.baseState =
         FoldEligible(updates, UpTo(PassOrder, skipped), p,
                      queues[PassQueue].baseState)

\* C7. Base-state rule: after a pass that does not bail out, baseState is the
\* old baseState with the eligible updates applied that come before the first
\* skipped update in processing order (persistent, render phase, captured); it
\* is the result state when nothing was skipped.
C7_BaseStateRule == [][C7_BaseState]_vars

\* A pass applied an update and then skipped one in each of the three lists;
\* the base state is the state at the first skip.
C7_Witness ==
  /\ last.op = "process" /\ ~last.bailout
  /\ WorkInProgressQueue.firstUpdate # Null
  /\ WorkInProgressQueue.firstRenderPhaseUpdate # Null
  /\ WorkInProgressQueue.firstCapturedUpdate # Null
  /\ WorkInProgressQueue.baseState # <<>>

C8_Result ==
  PassStep =>
    fibers'[WorkInProgress].memoizedState =
      FoldEligible(updates, PassOrder, last'.prio, queues[PassQueue].baseState)

\* C8. Result of one pass: after a pass at priority p that does not bail out,
\* the memoized state is the old baseState folded through the process
\* functions of exactly the updates with priority <= p, in list order over
\* the persistent, the render phase and the captured list.
C8_ResultOfOnePass == [][C8_Result]_vars

\* A pass at the weakest priority applied three updates, one of them more
\* urgent than the pass, in list order, which is not the order in which they
\* were created.
C8_Witness ==
  /\ last.op = "process" /\ ~last.bailout /\ last.prio = MaxPriority
  /\ Len(fibers[WorkInProgress].memoizedState) = 3
  /\ ~IsIncreasing(fibers[WorkInProgress].memoizedState)
  /\ \E x \in Range(fibers[WorkInProgress].memoizedState) :
        updates[x].alloc /\ updates[x].expirationTime = 1

\* C9 as claimed: over all the passes, the process function of an update is
\* invoked at most once.
C9_InvokedOnce == \A x \in UpdIds : calls[x] <= 1

\* The states the fibers memoize and the queues rebase on.
StoredStates ==
  {fibers[j].memoizedState : j \in FiberIds} \cup {queues[i].baseState : i \in QIds}

C9_Visible ==
  last.op = "enqueueUpdate" =>
     /\ Newest \in Range(Chain(updates, CommittedQueue.firstUpdate, ArenaSize + 1))
     /\ WorkInProgress # Null =>
          Newest \in Range(Chain(updates, WorkInProgressQueue.firstUpdate,
                                 ArenaSize + 1))

C9_OncePerState == \A state \in StoredStates : NoDuplicates(state)

C9_OncePerPass ==
  PassStep => \A x \in UpdIds : calls[x] = 0 => calls'[x] <= 1

\* C9, amended. An update enqueued with enqueueUpdate is in the persistent list
\* of the queue of each view; one pass invokes its process function at most
\* once, and no memoized state or base state holds its effect twice, although a
\* later pass applies again an update an earlier pass applied behind a skipped
\* one.
C9_AtMostOnceApplication ==
  /\ [](C9_Visible /\ C9_OncePerState)
  /\ [][C9_OncePerPass]_vars

\* Over a pair with two queues, a pass has applied an update a second time;
\* the memoized state holds that update once.
C9_Witness ==
  /\ last.op = "process" /\ ~last.bailout /\ TwoQueues
  /\ \E x \in UpdIds :
       /\ calls[x] = 2
       /\ Occurrences(fibers[WorkInProgress].memoizedState, x) = 1

\* C10 as claimed: after enqueueUpdate every queue of the pair has an
\* expiration time that is not NoWork and not later than the new update's.
C10_AggregateTightening ==
  last.op = "enqueueUpdate" =>
     \A j \in FiberIds :
        (fibers[j].alloc /\ fibers[j].updateQueue # Null) =>
           /\ queues[fibers[j].updateQueue].expirationTime # NoWork
           /\ queues[fibers[j].updateQueue].expirationTime
                 <= updates[Newest].expirationTime

\* ------------------------------------------------------------ the fast path
\* The step is a call of processUpdateQueue at a priority the queue's
\* expiration time does not reach.
FastPathStep ==
  /\ last'.op = "process"
  /\ \/ queues[PassQueue].expirationTime = NoWork
     \/ queues[PassQueue].expirationTime > last'.prio

C11_Unchanged ==
  FastPathStep =>
     /\ queues' = queues
     /\ fibers' = fibers
     /\ updates' = updates
     /\ fired' = fired
     /\ calls' = calls
     /\ ~hung'

\* C11. Fast path: a call of processUpdateQueue on a queue whose expiration
\* time is NoWork or later than the render's changes no queue (none is cloned),
\* no fiber, no update and fires nothing; a queue as createUpdateQueue makes it,
\* with no update enqueued, has expiration time NoWork.
C11_FastPath ==
  /\ [][C11_Unchanged]_vars
  /\ [](createUpdateQueue(<<>>).expirationTime = NoWork)

\* A pass at the most urgent priority returned at once on a queue the
\* work-in-progress shares with the committed fiber, that holds an update.
C11_Witness ==
  /\ last.op = "process" /\ last.bailout /\ last.prio = 1
  /\ WorkInProgress # Null
  /\ fibers[WorkInProgress].updateQueue = fibers[Current].updateQueue
  /\ WorkInProgressQueue.firstUpdate # Null
  /\ WorkInProgressQueue.expirationTime > 1


\* The queue has no update in any of its three lists.
Drained(queue) ==
  /\ queue.firstUpdate = Null
  /\ queue.firstRenderPhaseUpdate = Null
  /\ queue.firstCapturedUpdate = Null

NothingChanges ==
  /\ queues' = queues
  /\ fibers' = fibers
  /\ updates' = updates
  /\ fired' = fired
  /\ calls' = calls

\* C12 as claimed: a call of processUpdateQueue on a queue whose firstUpdate is
\* null changes nothing.
C12_NullFirstUpdateNoOp ==
  [][(last'.op = "process" /\ queues[PassQueue].firstUpdate = Null)
        => NothingChanges]_vars


\* ------------------------------------------------------ render phase updates
\* The updates some queue of the pair holds in one of its four lists.
Listed ==
  UNION {Range(PersistentList(Heap, i)) \cup Range(RenderPhaseList(Heap, i))
           \cup Range(CapturedList(Heap, i)) \cup Range(EffectList(Heap, i))
         : i \in QIds}

\* The render phase and captured updates of the work-in-progress queue.
RenderPhaseUpdates ==
  Range(Chain(updates, WorkInProgressQueue.firstRenderPhaseUpdate, ArenaSize + 1))
    \cup Range(Chain(updates, WorkInProgressQueue.firstCapturedUpdate,
                     ArenaSize + 1))

\* The render is discarded: its render phase and captured updates are in no
\* list of the committed queue, nor of the queue the new work-in-progress has.
C13_Discarded ==
  last'.op = "restart" => RenderPhaseUpdates \cap Listed' = {}

\* An update that is in no list stays in no list and is not applied.
C13_StaysOut ==
  \A x \in UpdIds :
     (updates[x].alloc /\ x \notin Listed)
       => (x \notin Listed' /\ calls'[x] = calls[x])

\* C13. Render phase isolation: when a render is discarded without a commit,
\* the updates enqueueRenderPhaseUpdate and enqueueCapturedUpdate gave its
\* work-in-progress are in none of the four lists of the queue the next
\* work-in-progress takes from the committed fiber, and an update that is in
\* no list is never in a list again and is applied by no later pass.
C13_RenderPhaseIsolation ==
  /\ [][C13_Discarded]_vars
  /\ [][C13_StaysOut]_vars

\* The only update ever created was applied by a pass of a render that was
\* discarded; the committed fiber never had a queue, so the update came in as a
\* render phase or captured update; it is in no list.
C13_Witness ==
  /\ last.op = "restart"
  /\ NumAllocated = 1 /\ calls[1] = 1
  /\ fibers[Current].updateQueue = Null
  /\ 1 \notin Listed


\* The step is a call of enqueueRenderPhaseUpdate or enqueueCapturedUpdate.
RenderPhaseEnqueueStep ==
  last'.op \in {"enqueueRenderPhaseUpdate", "enqueueCapturedUpdate"}

C14_Frame ==
  RenderPhaseEnqueueStep =>
     LET persistent == Chain(updates, CommittedQueue.firstUpdate, ArenaSize + 1)
         own == Chain(updates, WorkInProgressQueue.firstUpdate, ArenaSize + 1)
     IN /\ CommittedQueue' = CommittedQueue
        /\ WorkInProgressQueue'.firstUpdate = WorkInProgressQueue.firstUpdate
        /\ WorkInProgressQueue'.lastUpdate = WorkInProgressQueue.lastUpdate
        /\ \A x \in Range(persistent) \cup Range(own) :
              updates'[x].next = updates[x].next
        /\ fibers'[Current].updateQueue # Null
             => fibers'[WorkInProgress].updateQueue # fibers'[Current].updateQueue

C14_Appended ==
  RenderPhaseEnqueueStep =>
     LET rp == Chain(updates, WorkInProgressQueue.firstRenderPhaseUpdate,
                     ArenaSize + 1)
         cap == Chain(updates, WorkInProgressQueue.firstCapturedUpdate,
                      ArenaSize + 1)
         rp2 == Chain(updates', WorkInProgressQueue'.firstRenderPhaseUpdate,
                      ArenaSize + 1)
         cap2 == Chain(updates', WorkInProgressQueue'.firstCapturedUpdate,
                       ArenaSize + 1)
     IN IF last'.op = "enqueueRenderPhaseUpdate"
        THEN /\ rp2 = Append(rp, Newest')
             /\ cap2 = cap
             /\ WorkInProgressQueue'.lastRenderPhaseUpdate = Newest'
        ELSE /\ cap2 = Append(cap, Newest')
             /\ rp2 = rp
             /\ WorkInProgressQueue'.lastCapturedUpdate = Newest'

\* C14. enqueueRenderPhaseUpdate (enqueueCapturedUpdate) appends the update to
\* the render phase (captured) list of the work-in-progress queue and to no
\* other list; the committed queue keeps every field, the work-in-progress
\* queue its firstUpdate and lastUpdate, every update of a persistent list its
\* next link; after the call the work-in-progress queue is not the committed
\* queue object.
C14_RenderPhaseAppend ==
  /\ [][C14_Frame]_vars
  /\ [][C14_Appended]_vars

\* A second render phase update was appended to a work-in-progress queue that
\* is a clone of the committed queue, which holds an update.
C14_Witness ==
  /\ last.op = "enqueueRenderPhaseUpdate" /\ TwoQueues
  /\ CommittedQueue.firstUpdate # Null
  /\ WorkInProgressQueue.firstUpdate = CommittedQueue.firstUpdate
  /\ Len(Chain(updates, WorkInProgressQueue.firstRenderPhaseUpdate,
               ArenaSize + 1)) = 2


\* --------------------------------------------------------------- the commit
\* The step is a call of commitUpdateQueue (the finished work has a queue).
CommitStep ==
  last'.op = "commit" /\ fibers[WorkInProgress].updateQueue # Null

\* C15 as claimed: after commitUpdateQueue on a finished queue with a render
\* phase or captured update, the persistent list is what it was, followed by
\* the render phase list, followed by the captured list; lastUpdate is its
\* last update and the render phase and captured lists are empty.
C15_CommitSplice ==
  [][LET persistent == Chain(updates, WorkInProgressQueue.firstUpdate,
                             ArenaSize + 1)
         rp == Chain(updates, WorkInProgressQueue.firstRenderPhaseUpdate,
                     ArenaSize + 1)
         cap == Chain(updates, WorkInProgressQueue.firstCapturedUpdate,
                      ArenaSize + 1)
         joined == persistent \o rp \o cap
     IN (CommitStep /\ rp \o cap # <<>>) =>
           /\ Chain(updates', CommittedQueue'.firstUpdate, ArenaSize + 1) = joined
           /\ CommittedQueue'.lastUpdate = joined[Len(joined)]
           /\ CommittedQueue'.firstRenderPhaseUpdate = Null
           /\ CommittedQueue'.lastRenderPhaseUpdate = Null
           /\ CommittedQueue'.firstCapturedUpdate = Null
           /\ CommittedQueue'.lastCapturedUpdate = Null]_vars


\* The effect list of the finished queue, and what the step added to fired.
FinishedEffects ==
  EffectChain(updates, WorkInProgressQueue.firstEffect, ArenaSize + 1)
NewlyFired == SubSeq(fired', Len(fired) + 1, Len(fired'))

C16_Walk ==
  CommitStep =>
     /\ Len(fired') >= Len(fired)
     /\ SubSeq(fired', 1, Len(fired)) = fired
     /\ NoDuplicates(NewlyFired)
     /\ Range(NewlyFired) = {x \in Range(FinishedEffects) : updates[x].commit}
     /\ \A i, j \in 1..Len(NewlyFired) :
           i < j => FirstIndex(FinishedEffects, {NewlyFired[i]})
                      < FirstIndex(FinishedEffects, {NewlyFired[j]})
     /\ \A x \in Range(NewlyFired) : ~updates'[x].commit
     /\ NoDuplicates(FinishedEffects) =>
           /\ ~hung'
           /\ CommittedQueue'.firstEffect = Null
           /\ CommittedQueue'.lastEffect = Null

\* The finished queue is the committed queue object: no pass has run on it
\* since it was committed.
C16_Again ==
  (CommitStep /\ fibers[WorkInProgress].updateQueue = fibers[Current].updateQueue)
    => fired' = fired

\* C16. Commit walk: commitUpdateQueue fires the commit action of every update
\* of the effect list that has one, once each and in the order of the list,
\* clears the commit reference of each update it fired, and (the list having
\* an end) leaves firstEffect and lastEffect null; a commit of a queue no pass
\* has run on since its last commit fires nothing; no commit action fires
\* twice.
C16_CommitWalk ==
  /\ [][C16_Walk]_vars
  /\ [][C16_Again]_vars
  /\ [](\A x \in UpdIds : Occurrences(fired, x) <= 1)

\* One commit fired the actions of two updates in the order of the effect list,
\* which is not the order the updates were created in: the first created was
\* a render phase update, applied by the pass after the second.
C16_Witness ==
  /\ last.op = "commit" /\ NumAllocated = 2
  /\ fired = <<2, 1>>
  /\ calls[1] = 1 /\ calls[2] = 1
  /\ fibers[Current].memoizedState = <<2, 1>>


\* ------------------------------------------------------------ copy on write
\* The step is a call of processUpdateQueue that does not return at once, on a
\* work-in-progress whose queue is the committed fiber's queue object.
SharedPassStep ==
  /\ last'.op = "process"
  /\ fibers[WorkInProgress].updateQueue = fibers[Current].updateQueue
  /\ queues[PassQueue].expirationTime # NoWork
  /\ queues[PassQueue].expirationTime <= last'.prio

C17_Cloned ==
  SharedPassStep =>
     /\ ~hung'
     /\ fibers'[Current].updateQueue # Null
     /\ fibers'[WorkInProgress].updateQueue # Null
     /\ fibers'[WorkInProgress].updateQueue # fibers'[Current].updateQueue
     /\ CommittedQueue'.baseState = CommittedQueue.baseState
     /\ CommittedQueue'.firstUpdate = CommittedQueue.firstUpdate
     /\ CommittedQueue'.lastUpdate = CommittedQueue.lastUpdate
     /\ CommittedQueue'.expirationTime = CommittedQueue.expirationTime
     /\ \A x \in Range(Chain(updates, CommittedQueue.firstUpdate, ArenaSize + 1)) :
           updates'[x].next = updates[x].next

\* C17. Copy on write: a pass of processUpdateQueue that does not bail out, on
\* a work-in-progress whose queue is the committed queue object, gives the
\* work-in-progress a queue of its own and leaves the committed queue's
\* baseState, firstUpdate, lastUpdate and expirationTime, and the next link of
\* every update of its persistent list, as they were.
C17_CopyOnWrite == [][C17_Cloned]_vars

\* The pass consumed two updates of a queue that was shared: the committed
\* queue still holds both, the work-in-progress queue holds none.
C17_Witness ==
  /\ last.op = "process" /\ ~last.bailout /\ phase = "processed" /\ TwoQueues
  /\ Len(Chain(updates, CommittedQueue.firstUpdate, ArenaSize + 1)) = 2
  /\ WorkInProgressQueue.firstUpdate = Null
  /\ CommittedQueue.baseState = <<>>
  /\ Len(WorkInProgressQueue.baseState) = 2


\* ------------------------------------------------------ the expiration time
\* The queue objects the fibers of the pair hold.
LiveQueues ==
  {fibers[j].updateQueue : j \in {k \in FiberIds : fibers[k].alloc}} \ {Null}

\* C18 as claimed: a queue's expiration time is NoWork exactly when its
\* firstUpdate, firstRenderPhaseUpdate and firstCapturedUpdate are all null.
C18_EmptyIffNoWork ==
  \A i \in LiveQueues : (queues[i].expirationTime = NoWork) <=> Drained(queues[i])


\* The expiration times of the updates in the three lists of the queue.
RemainingTimes(i) ==
  {updates[x].expirationTime : x \in Range(ProcessingOrder(Heap, i))}

\* C19 as claimed: a queue's expiration time is the earliest expiration time
\* of the updates in its persistent, render phase and captured lists, and
\* NoWork when it has none.
C19_AggregateIsMostUrgent ==
  \A i \in LiveQueues :
     IF RemainingTimes(i) = {}
     THEN queues[i].expirationTime = NoWork
     ELSE /\ queues[i].expirationTime \in RemainingTimes(i)
          /\ \A t \in RemainingTimes(i) : queues[i].expirationTime <= t


\* ------------------------------------------------------------- lazy creation
\* The queue is empty, on the given base state.
IsFresh(queue, state) ==
  /\ queue.alloc /\ queue.baseState = state /\ queue.expirationTime = NoWork
  /\ queue.firstUpdate = Null /\ queue.lastUpdate = Null
  /\ queue.firstRenderPhaseUpdate = Null /\ queue.lastRenderPhaseUpdate = Null
  /\ queue.firstCapturedUpdate = Null /\ queue.lastCapturedUpdate = Null
  /\ queue.firstEffect = Null /\ queue.lastEffect = Null

\* The queue shares the persistent list of its sibling and has no list of its
\* own.
IsStructuralClone(queue, sibling) ==
  /\ queue.alloc /\ queue.baseState = sibling.baseState
  /\ queue.expirationTime = sibling.expirationTime
  /\ queue.firstUpdate = sibling.firstUpdate
  /\ queue.lastUpdate = sibling.lastUpdate
  /\ queue.firstRenderPhaseUpdate = Null /\ queue.lastRenderPhaseUpdate = Null
  /\ queue.firstCapturedUpdate = Null /\ queue.lastCapturedUpdate = Null
  /\ queue.firstEffect = Null /\ queue.lastEffect = Null

\* What lines 237-271 of enqueueUpdate make of the queues of fiber and its
\* alternate, in the present state.
C20_Ensured(fiber) ==
  LET H0 == EnsureQueues(Heap, fiber)
      alternate == fibers[fiber].alternate
      queue1 == fibers[fiber].updateQueue
      new1 == H0.f[fiber].updateQueue
  IN /\ new1 # Null
     /\ IF alternate = Null
        THEN IF queue1 = Null
             THEN IsFresh(H0.q[new1], fibers[fiber].memoizedState)
             ELSE H0 = Heap
        ELSE LET queue2 == fibers[alternate].updateQueue
                 new2 == H0.f[alternate].updateQueue
             IN /\ new2 # Null
                /\ CASE queue1 = Null /\ queue2 = Null ->
                          /\ new1 # new2
                          /\ IsFresh(H0.q[new1], fibers[fiber].memoizedState)
                          /\ IsFresh(H0.q[new2], fibers[alternate].memoizedState)
                     [] queue1 = Null /\ queue2 # Null ->
                          /\ new1 # new2 /\ new2 = queue2
                          /\ H0.q[queue2] = queues[queue2]
                          /\ IsStructuralClone(H0.q[new1], queues[queue2])
                     [] queue1 # Null /\ queue2 = Null ->
                          /\ new1 # new2 /\ new1 = queue1
                          /\ H0.q[queue1] = queues[queue1]
                          /\ IsStructuralClone(H0.q[new2], queues[queue1])
                     [] OTHER -> H0 = Heap

C20_BothHaveQueues ==
  last.op = "enqueueUpdate" =>
     /\ fibers[Current].updateQueue # Null
     /\ WorkInProgress # Null =>
          /\ fibers[WorkInProgress].updateQueue # Null
          /\ WorkInProgressQueue.lastUpdate = CommittedQueue.lastUpdate

\* C20. Lazy creation and cloning: in every reachable state, the first part of
\* enqueueUpdate gives the fiber and its alternate (when it has one) a queue:
\* two new empty queues, each on its own fiber's memoized state, when neither
\* had one; when one had, a new queue for the other with the same baseState,
\* expirationTime, firstUpdate and lastUpdate and no render phase, captured or
\* effect list; none when both had. After enqueueUpdate both fibers have a
\* queue.
C20_LazyCreationAndCloning ==
  /\ \A fiber \in FiberIds : fibers[fiber].alloc => C20_Ensured(fiber)
  /\ C20_BothHaveQueues

\* enqueueUpdate cloned, for the committed fiber, the queue of a
\* work-in-progress that has a render phase update: the committed queue has
\* the new update only, the work-in-progress queue the render phase update too.
C20_Witness ==
  /\ last.op = "enqueueUpdate" /\ TwoQueues /\ NumAllocated = 2
  /\ WorkInProgressQueue.firstRenderPhaseUpdate = 1
  /\ CommittedQueue.firstRenderPhaseUpdate = Null
  /\ CommittedQueue.firstUpdate = 2
  /\ WorkInProgressQueue.firstUpdate = 2


\* ------------------------------------------------- updates that change nothing
C24_Consumed ==
  PassStep =>
    LET p == last'.prio
        pre == Chain(updates, queues[PassQueue].firstUpdate, ArenaSize + 1)
        skipped == {x \in Range(pre) : updates[x].expirationTime > p}
        post == Chain(updates', WorkInProgressQueue'.firstUpdate, ArenaSize + 1)
        effects == EffectChain(updates', WorkInProgressQueue'.firstEffect,
                               ArenaSize + 1)
    IN /\ post = From(pre, skipped)
       /\ \A x \in Range(UpTo(pre, skipped)) :
             /\ x \notin Range(post)
             /\ (updates[x].process # "null" /\ calls[x] = 0) => calls'[x] = 1
             /\ updates[x].process = "null" => calls'[x] = calls[x]
             /\ updates[x].commit <=> x \in Range(effects)

\* C24. Eligibility is about priority only: a pass takes every update of the
\* persistent list before the first one of insufficient priority out of the
\* list, whether its process function changes the state, returns it as it
\* was, or is missing; it invokes the process function when there is one and
\* puts the update on the effect list when it has a commit action.
C24_EligibilityIsPriorityOnly == [][C24_Consumed]_vars

\* A pass applied two updates, one whose process function returned the state
\* unchanged and one without a process function: the state is the initial one
\* and the work-in-progress list is empty, the committed list still holds both.
C24_Witness ==
  /\ last.op = "process" /\ ~last.bailout /\ TwoQueues
  /\ WorkInProgressQueue.firstUpdate = Null
  /\ fibers[WorkInProgress].memoizedState = <<>>
  /\ LET list == Chain(updates, CommittedQueue.firstUpdate, ArenaSize + 1)
     IN /\ Len(list) = 2
        /\ \E x \in Range(list) : updates[x].process = "same" /\ calls[x] = 1
        /\ \E x \in Range(list) : updates[x].process = "null"


\* C25. No duplication by identity: in every reachable state, the persistent
\* list of every queue a fiber holds is acyclic and holds no update twice.
C25_NoDuplication ==
  \A i \in LiveQueues : NoDuplicates(PersistentList(Heap, i))

\* enqueueUpdate took the shared-tail branch on two queues with different heads.
C25_Witness ==
  /\ last.op = "enqueueUpdate"
  /\ TwoQueues
  /\ LET l1 == Chain(updates, CommittedQueue.firstUpdate, ArenaSize + 1)
         l2 == Chain(updates, WorkInProgressQueue.firstUpdate, ArenaSize + 1)
     IN Len(l1) >= 3 /\ Len(l2) = 2


\* The persistent list of the committed view.
CommittedList == Chain(updates, CommittedQueue.firstUpdate, ArenaSize + 1)

\* One step, as seen from the committed view: unless the step is a commit the
\* list only grows at its end; a commit takes away a prefix of the list, every
\* update of which was processed and is part of the committed base state, and
\* keeps the rest in order.
C26_Step ==
  LET old == CommittedList
      new == CommittedList'
      removed == Range(old) \ Range(new)
      k == Cardinality(removed)
  IN IF last'.op = "commit"
     THEN /\ removed = {old[i] : i \in 1..k}
          /\ IsPrefix(SubSeq(old, k + 1, Len(old)), new)
          /\ \A x \in removed :
                /\ updates[x].process = "append" =>
                      x \in Range(CommittedQueue'.baseState)
                /\ updates[x].process # "null" => calls[x] >= 1
     ELSE IsPrefix(old, new)

\* C26 as claimed. Retention until committed: no enqueue and no pass over a
\* work-in-progress removes an update from the committed view's persistent
\* list, and a commit removes only updates at the front of the list that the
\* committed pass applied, leaving every update from the first skipped one on.
C26_RetainedUntilCommitted == [][C26_Step]_vars


\* The updates the finished pass applied on top of the base state it saved:
\* they were applied after an update that was skipped.
AppliedAfterSkip ==
  Range(fibers[WorkInProgress].memoizedState)
    \ Range(WorkInProgressQueue.baseState)

C27_Step ==
  (CommitStep /\ WorkInProgressQueue.firstUpdate # Null) =>
     AppliedAfterSkip \subseteq Range(CommittedList')

\* C27 as claimed. Render phase updates are rebased: when the finished pass
\* left a skipped update in the persistent list, every update it applied after
\* the skip, render phase and captured updates included, is in the committed
\* persistent list after commitUpdateQueue, so that the pass that restarts from
\* the saved base state applies it again.
C27_RenderPhaseRebased == [][C27_Step]_vars


\* C28 as claimed. Shared tail: whenever the pair has two distinct queues and
\* both have a lastUpdate, the two lastUpdate pointers are the same update.
C28_SharedTail ==
  (TwoQueues /\ CommittedQueue.lastUpdate # Null
             /\ WorkInProgressQueue.lastUpdate # Null) =>
     CommittedQueue.lastUpdate = WorkInProgressQueue.lastUpdate


\* The work-in-progress queue's firstUpdate is null or an update of the
\* committed persistent list.
C29_Behind ==
  \/ WorkInProgressQueue.firstUpdate = Null
  \/ WorkInProgressQueue.firstUpdate \in Range(CommittedList)

C29_Moved == CommittedQueue'.firstUpdate # CommittedQueue.firstUpdate

\* C29 as claimed. Pointer order of the pair: the work-in-progress queue's
\* firstUpdate is always null or reachable from the committed queue's
\* firstUpdate in the shared persistent list, and the committed queue's
\* firstUpdate changes only in a commit, when the finished work-in-progress is
\* swapped in.
C29_ChangesOnlyAtCommit ==
  /\ []C29_Behind
  /\ [][C29_Moved => last'.op = "commit"]_vars


C30_Effects ==
  (PassStep /\ queues[PassQueue].firstEffect = Null) =>
     LET p == last'.prio
         HasEffect(x) == updates[x].expirationTime <= p /\ updates[x].commit
     IN EffectChain(updates', WorkInProgressQueue'.firstEffect, ArenaSize + 1)
          = SelectSeq(PassOrder, HasEffect)

\* C30. Effect list of one pass: after a pass that does not bail out, at
\* priority P, over a queue whose effect list was empty, the effect list is the
\* updates of the persistent, render phase and captured lists (in that order)
\* whose expiration time is at most P and that have a commit action; no skipped
\* update and no update without a commit action is on it.
C30_EffectListOfOnePass == [][C30_Effects]_vars

\* The pass put two updates on the effect list, against their enqueue order (a
\* render phase or captured update comes after a persistent update enqueued
\* later), and skipped an update that has a commit action.
C30_Witness ==
  /\ last.op = "process" /\ ~last.bailout /\ phase = "processed"
  /\ LET effects == FinishedEffects
     IN /\ Len(effects) = 2
        /\ effects[1] > effects[2]
        /\ \E x \in UpdIds :
              /\ updates[x].alloc /\ updates[x].commit
              /\ x \notin Range(effects)
              /\ x \in Range(ProcessingOrder(Heap, fibers[WorkInProgress].updateQueue))


\* The heap without the diagnostics: isProcessing, the warning latch, the
\* warnings and the build flag.
Functional(H) ==
  [u |-> H.u,
   q |-> [i \in QIds |-> [H.q[i] EXCEPT !.isProcessing = FALSE]],
   f |-> H.f, fired |-> H.fired, calls |-> H.calls, hung |-> H.hung,
   threw |-> H.threw]

\* C21 as claimed: every enqueueUpdate call that found a queue of the pair
\* processing reported a warning.
C21_AlwaysReported == diagnostics.warnings = diagnostics.reentered

\* The warning is reported by the first call that finds a queue processing on a
\* class component, and by no other call.
C21_Latch ==
  /\ diagnostics.warnings =
       IF diagnostics.reentered > 0 /\ diagnostics.tagIsClassComponent
       THEN 1 ELSE 0
  /\ diagnostics.didWarnUpdateInsideUpdate <=> diagnostics.warnings = 1
  /\ ~diagnostics.dev => diagnostics.reentered = 0

\* An update scheduled by a process function during the pass is appended: it is
\* the last update of the committed list, and the pass has applied it or left
\* it in the work-in-progress list.
C21_AppendedDuringPass ==
  (last'.op = "process" /\ diagnostics'.reentered > diagnostics.reentered) =>
     /\ Newest' > Newest
     /\ CommittedQueue'.lastUpdate = Newest'
     /\ \A x \in (Newest + 1)..Newest' :
           /\ x \in Range(CommittedList')
           /\ \/ x \in Range(Chain(updates', WorkInProgressQueue'.firstUpdate,
                                    ArenaSize + 1))
              \/ calls'[x] = 1

\* A call of enqueueUpdate, whether or not a queue is processing, appends the
\* update: it is the last update of the committed list and of both queues.
C21_AppendedByCall ==
  last'.op = "enqueueUpdate" =>
     /\ Newest' = Newest + 1
     /\ CommittedQueue'.lastUpdate = Newest'
     /\ Newest' \in Range(CommittedList')
     /\ TwoQueues' => WorkInProgressQueue'.lastUpdate = Newest'

\* C21. Re-entrant enqueue: in a __DEV__ build, the first enqueueUpdate call on
\* a class component that finds a queue of the pair processing reports a
\* warning, and no later call does; a fiber of another tag gets none. The
\* enqueue is never blocked: the update is appended as in the non-re-entrant
\* case.
C21_ReentrantEnqueue ==
  [][C21_Latch' /\ C21_AppendedDuringPass /\ C21_AppendedByCall]_vars

\* A process function scheduled an update during the pass: the warning was
\* reported and the update is in the committed list.
C21_Witness ==
  /\ last.op = "process" /\ ~last.threw
  /\ diagnostics.reentered = 1 /\ diagnostics.warnings = 1
  /\ updates[1].process = "setStateOnce" /\ calls[1] = 1
  /\ CommittedList = <<1, 2>>
  /\ fibers[WorkInProgress].memoizedState = <<1, 2>>


\* The heap as the build without __DEV__ has it: no queue is ever marked as
\* processing and nothing was ever warned about.
Release(H) ==
  [H EXCEPT !.q = [i \in QIds |-> [H.q[i] EXCEPT !.isProcessing = FALSE]],
            !.d = [NoDiagnostics EXCEPT
                     !.dev = FALSE,
                     !.tagIsClassComponent = H.d.tagIsClassComponent]]

C22_Enqueue ==
  CanAllocate =>
    \A fiber \in FiberIds, p \in Priorities :
       fibers[fiber].alloc =>
         LET n == NewUpdateId(Heap)
             sh == [process |-> "append", commit |-> FALSE]
         IN Functional(enqueueUpdate(NewUpdate(Heap, n, p, sh), fiber, n, p))
              = Functional(enqueueUpdate(NewUpdate(Release(Heap), n, p, sh),
                                         fiber, n, p))

C22_Process ==
  (/\ WorkInProgress # Null
   /\ fibers[WorkInProgress].updateQueue # Null
   /\ RoomForCallbacks(Heap, PassQueue)) =>
    \A p \in Priorities :
       Functional(processUpdateQueue(Heap, WorkInProgress, PassQueue, p))
         = Functional(processUpdateQueue(Release(Heap), WorkInProgress,
                                         PassQueue, p))

C22_Commit ==
  (/\ WorkInProgress # Null
   /\ fibers[WorkInProgress].updateQueue # Null) =>
     Functional(commitUpdateQueue(Heap, WorkInProgress, PassQueue))
       = Functional(commitUpdateQueue(Release(Heap), WorkInProgress, PassQueue))

\* C22. Diagnostics independence: in every state a run reaches, each operation
\* (enqueueUpdate, processUpdateQueue, commitUpdateQueue, with any argument)
\* gives the build with __DEV__ and the build without it the same updates,
\* lists, base state, expiration times, memoized state, process calls and
\* fired commit actions; step by step, the two builds stay equal in all but
\* isProcessing, the latch and the warnings.
C22_DiagnosticsIndependence ==
  ~hung => C22_Enqueue /\ C22_Process /\ C22_Commit

\* A __DEV__ build in which a queue is left marked as processing (a process
\* function threw) and the warning has been reported.
C22_Witness ==
  /\ diagnostics.dev /\ diagnostics.warnings = 1
  /\ TwoQueues /\ WorkInProgressQueue.isProcessing
  /\ Len(CommittedList) = 2


\* A pass in which a process function threw.
ThrowingPassStep == last'.op = "process" /\ last'.threw

\* The exception leaves the queue and the fiber as they were: base state,
\* heads and tails of the three lists, the lists themselves, the expiration
\* time and the memoized state; the committed queue is untouched.
C23_Intact ==
  ThrowingPassStep =>
    LET before == queues[PassQueue]
        after == WorkInProgressQueue'
    IN /\ after.baseState = before.baseState
       /\ after.firstUpdate = before.firstUpdate
       /\ after.lastUpdate = before.lastUpdate
       /\ after.firstRenderPhaseUpdate = before.firstRenderPhaseUpdate
       /\ after.lastRenderPhaseUpdate = before.lastRenderPhaseUpdate
       /\ after.firstCapturedUpdate = before.firstCapturedUpdate
       /\ after.lastCapturedUpdate = before.lastCapturedUpdate
       /\ after.expirationTime = before.expirationTime
       /\ fibers'[WorkInProgress].memoizedState
            = fibers[WorkInProgress].memoizedState
       /\ ProcessingOrder(Heap', fibers'[WorkInProgress].updateQueue) = PassOrder
       /\ CommittedQueue' = CommittedQueue
       /\ CommittedList' = CommittedList

\* A pass that completes, a pass run again after an exception included, gives
\* the base state folded through the eligible updates of the lists.
C23_RunAgain ==
  (last'.op = "process" /\ ~last'.bailout /\ ~last'.threw /\ ~hung') =>
    fibers'[WorkInProgress].memoizedState =
      FoldEligible(updates, PassOrder, last'.prio, queues[PassQueue].baseState)

\* C23. Failure inside a transform: when a process function throws during
\* processUpdateQueue, the queue's baseState, the heads and tails of its
\* persistent, render phase and captured lists, its expiration time and the
\* fiber's memoized state are what they were before the call, and a pass run
\* again processes the same updates from the same base state.
C23_FailureInsideTransform == [][C23_Intact /\ C23_RunAgain]_vars

\* A pass was run again after an exception, at the other priority: the update
\* whose process function threw the first time is applied, after an update the
\* failed pass had already applied.
C23_Witness ==
  /\ last.op = "process" /\ ~last.threw /\ ~last.bailout /\ last.prio = 2
  /\ \E x \in UpdIds :
        /\ updates[x].alloc /\ updates[x].process = "throwOnce"
        /\ calls[x] = 2
        /\ updates[x].expirationTime = 1
        /\ Len(fibers[WorkInProgress].memoizedState) >= 2
        /\ fibers[WorkInProgress].memoizedState[2] = x
        /\ calls[fibers[WorkInProgress].memoizedState[1]] = 2


\* C31 as claimed. Effect list well-formedness: no loop of the program runs
\* forever, and the effect list of every queue, followed from firstEffect
\* through nextEffect, holds no update twice and ends at lastEffect.
C31_EffectListWellFormed ==
  /\ ~hung
  /\ \A i \in LiveQueues :
        LET effects == EffectList(Heap, i)
        IN /\ NoDuplicates(effects)
           /\ effects = <<>> <=> queues[i].lastEffect = Null
           /\ effects # <<>> => effects[Len(effects)] = queues[i].lastEffect


\* C32. Commit-phase visit flag: after a pass that did not return at once, the
\* work-in-progress fiber carries the update-queue effect flag whenever its
\* queue's effect list is non-empty or its render-phase or captured list still
\* holds a skipped update.
C32_NeedsCommitVisit ==
  \/ WorkInProgressQueue.firstEffect # Null
  \/ WorkInProgressQueue.firstRenderPhaseUpdate # Null
  \/ WorkInProgressQueue.firstCapturedUpdate # Null

C32_CommitVisitFlag ==
  [][PassStep /\ C32_NeedsCommitVisit' => fibers'[WorkInProgress].effectTag]_vars

\* A pass has skipped a render-phase update and put nothing on the effect list,
\* and the fiber carries the flag.
C32_Witness ==
  /\ last.op = "process" /\ ~last.bailout /\ ~hung
  /\ WorkInProgressQueue.firstEffect = Null
  /\ WorkInProgressQueue.firstRenderPhaseUpdate # Null
  /\ fibers[WorkInProgress].effectTag


\* The head and the tail of a list agree: both null, or the tail is in the list
\* that starts at the head and is its last element.
HeadTail(list, head, tail, link) ==
  /\ head = Null <=> tail = Null
  /\ tail # Null => tail \in Range(list) /\ link[tail] = Null

\* C33 as claimed. Head/tail consistency: in every state, for each queue of
\* the pair and each of its four lists, the head is null exactly when the tail
\* is, and a non-null tail is reachable from the head and is the last element
\* of the list (its link is null).
C33_HeadTailConsistent ==
  \A i \in LiveQueues :
     LET next == [k \in DOMAIN updates |-> updates[k].next]
         nextEffect == [k \in DOMAIN updates |-> updates[k].nextEffect]
     IN /\ HeadTail(PersistentList(Heap, i), queues[i].firstUpdate,
                    queues[i].lastUpdate, next)
        /\ HeadTail(RenderPhaseList(Heap, i), queues[i].firstRenderPhaseUpdate,
                    queues[i].lastRenderPhaseUpdate, next)
        /\ HeadTail(CapturedList(Heap, i), queues[i].firstCapturedUpdate,
                    queues[i].lastCapturedUpdate, next)
        /\ HeadTail(EffectList(Heap, i), queues[i].firstEffect,
                    queues[i].lastEffect, nextEffect)


\* A pass that did not return at once has just finished.
C34_AfterPass == last.op = "process" /\ ~last.bailout /\ ~last.threw /\ ~hung

C34_Weaker ==
  C34_AfterPass =>
     \/ WorkInProgressQueue.expirationTime = NoWork
     \/ WorkInProgressQueue.expirationTime > last.prio

C34_SecondPass ==
  (C34_AfterPass /\ last'.op = "process" /\ last'.prio = last.prio)
     => last'.bailout /\ NothingChanges /\ ~hung'

\* C34. Same-priority re-run: after a pass at priority P that did not return at
\* once, the queue's expiration time is NoWork or later than P, and a second
\* pass at the same P on that queue, with nothing enqueued in between, returns
\* at once and changes nothing: no update is applied again, none is added to
\* the effect list again.
C34_SamePriorityRerun ==
  /\ []C34_Weaker
  /\ [][C34_SecondPass]_vars

\* A pass at priority 1 applied an update with a commit callback and skipped
\* another; the second pass at priority 1 returned at once.
C34_Witness ==
  /\ last.op = "process" /\ last.bailout /\ last.prio = 1
  /\ phase = "processed"
  /\ WorkInProgressQueue.firstEffect # Null
  /\ WorkInProgressQueue.firstUpdate # Null
  /\ WorkInProgressQueue.expirationTime > 1
  /\ \E k \in DOMAIN calls : calls[k] = 1


\* What a commit step leaves alone. The finished queue is the work-in-progress
\* queue before the step and the committed queue after it.
C35_QueueFrame ==
  /\ CommittedQueue'.baseState = WorkInProgressQueue.baseState
  /\ CommittedQueue'.expirationTime = WorkInProgressQueue.expirationTime
  /\ CommittedQueue'.isProcessing = WorkInProgressQueue.isProcessing
  /\ WorkInProgressQueue.firstUpdate # Null
        => CommittedQueue'.firstUpdate = WorkInProgressQueue.firstUpdate
  /\ fibers'[Current].memoizedState = fibers[WorkInProgress].memoizedState
  /\ fibers'[Current].effectTag = fibers[WorkInProgress].effectTag
  /\ calls' = calls

C35_OtherQueueFrame ==
  fibers[Current].updateQueue \notin {Null, fibers[WorkInProgress].updateQueue}
     => WorkInProgressQueue' = CommittedQueue

C35_UpdateFrame ==
  \A x \in Listed' :
     /\ updates'[x].expirationTime = updates[x].expirationTime
     /\ updates'[x].process = updates[x].process
     /\ updates'[x].nextEffect = updates[x].nextEffect
     /\ updates'[x].next # updates[x].next
           => x \in {WorkInProgressQueue.lastUpdate,
                     WorkInProgressQueue.lastRenderPhaseUpdate}
     /\ updates'[x].commit # updates[x].commit => x \in Range(NewlyFired)

\* C35. Commit frame: commitUpdateQueue changes neither the finished queue's
\* baseState, its expiration time, its firstUpdate when the persistent list is
\* not empty, nor the fiber's memoized state, and invokes no process function;
\* of the updates it changes only the next link of the tail of the persistent
\* list and the commit reference of the updates it fires, and it leaves the
\* other queue of the pair as it was.
C35_CommitFrame ==
  [][(CommitStep /\ ~hung')
        => C35_QueueFrame /\ C35_OtherQueueFrame /\ C35_UpdateFrame]_vars

\* A commit has spliced a render phase or captured update behind the finished
\* queue's persistent list and fired a commit callback; the queue still has
\* work.
C35_Witness ==
  /\ last.op = "commit" /\ ~hung
  /\ fired # <<>>
  /\ fibers[Current].updateQueue # fibers[WorkInProgress].updateQueue
  /\ CommittedQueue.lastUpdate \notin {Null, WorkInProgressQueue.lastUpdate}
  /\ WorkInProgressQueue.lastUpdate # Null
  /\ CommittedQueue.expirationTime # NoWork
  /\ fibers[Current].memoizedState # <<>>


\* The update is kept by the work-in-progress queue: it is in the persistent
\* list and the queue's expiration time is no later than the update's.
C36_Kept(x) ==
  /\ x \in Range(Chain(updates, WorkInProgressQueue.firstUpdate, ArenaSize + 1))
  /\ WorkInProgressQueue.expirationTime # NoWork
  /\ WorkInProgressQueue.expirationTime <= updates[x].expirationTime

C36_Step ==
  (last'.op = "process" /\ ~last'.threw /\ ~hung') =>
     \A x \in (Newest + 1)..Newest' : calls'[x] >= 1 \/ C36_Kept(x)'

\* C36 as claimed. Re-entrant enqueue is not lost: an update a process
\* function enqueues with enqueueUpdate while processUpdateQueue runs on the
\* same fiber, during any of the three walks, has been applied when the pass
\* finishes or is in the work-in-progress queue's persistent list, with the
\* queue's expiration time no later than the update's.
C36_ReentrantNotLost == [][C36_Step]_vars


TypeOK ==
  /\ phase \in {"idle", "render", "processed", "reprocessed"}
  /\ hung \in BOOLEAN

====
